---- MODULE Spec2Model ----
(***************************************************************************)
(* Model of the emotion-support chat backend (app/backend): the WebSocket  *)
(* turn pipeline of routers/emotion_ws.py with its send queue and sender   *)
(* task, the step classifier of services/step_manager.py, the activity     *)
(* policy of services/convo_policy.py and the streaming LLM gateway of     *)
(* services/llm_service.py.                                                *)
(*                                                                         *)
(* Texts are sequences of tokens.  A token stands for a substring of the   *)
(* Python string: keyword search (`k in text`) is token membership, ""     *)
(* .join is concatenation, str.strip removes leading and trailing          *)
(* whitespace tokens.  The Korean lexicon entries are written as ASCII     *)
(* stand-ins, one or two per lexicon.                                      *)
(*                                                                         *)
(* Three specifications share the variables:                               *)
(*   Spec         the turn pipeline on one connection, from sessions at    *)
(*                several stages, with the send queue and the sender task  *)
(*   SpecConn     the receive loop with every kind of inbound frame        *)
(*   SpecGateway  one call of stream_noa_response                          *)
(* A call of the gateway appears in Spec as the pieces it yields before it *)
(* ends, raises or hangs (llm_streams).                                    *)
(***************************************************************************)
EXTENDS Integers, Sequences, FiniteSets, TLC

VARIABLES
    \* ---- Conversation store (one session) -------------------------------
    db_steps,       \* rows of emotionstep of the session, in insertion order
    ended_at,       \* EmotionSession.ended_at: 0 for None, else the number of the
                    \* write that set it (each write stores a later utcnow())
    \* ---- ws_emotion: connection-local state -----------------------------
    mode,           \* LeakGuard.mode ('mask' | 'drop'), read from the environment
    pc,             \* position of the receive loop (its await points)
    shutdown,       \* asyncio.Event shutdown
    send_queue,     \* asyncio.Queue send_queue
    sender_state,   \* the sender task: "not_started" | "get" (awaiting
                    \* send_queue.get) | "write" (inside _ws_send_safe) | "done"
    loop_writing,   \* the handler task is inside a transport write of its own
    ws_state,       \* transport: "open" | "closed"
    accepted,       \* websocket.accept() was called
    session_id,     \* the session of the connection: "none" | "created"
    close_code,     \* code passed to websocket.close, 0 while open
    recommend_fuse_tripped,
    \* ---- ws_emotion: locals of the message branch ------------------------
    user_text,
    prep,           \* result of _prepare_message_context
    llm_rest,       \* pieces stream_noa_response has still to yield
    assistant_chunks,
    stream_failed_reason,
    assistant_text,
    end_by_token,
    new_step,
    out_frame,      \* argument of the pending guard_send
    event,          \* the frame websocket.receive() returned to this iteration
    \* ---- history variables (read by no action guard) ----------------------
    turn_status,    \* "none" | "running" | "rejected" | "dropped" | "committed" |
                    \* "commit_failed"
    steps_before,   \* db_steps when the current message was accepted
    turn_frames,    \* frames accepted by send_queue since the last inbound frame
    commits,        \* turns committed in this behaviour
    commit_log,     \* per committed turn: the reservation, add_activity_marker,
                    \* the greatest position before it, the transport at the commit
    bp_hit,         \* a guard_send has timed out on the full queue
    mark_tried,     \* _mark_session_ended was invoked for the current turn
    fatal,          \* the connection-fatal event met: "none" | "auth" |
                    \* "idle_timeout" | "close"
    \* ---- environment of the connection (fixed by Init) --------------------
    client_texts,   \* texts the client sends in `message` frames
    llm_streams,    \* what a call of the gateway may yield to the pipeline
    raw_token,      \* the token of the handshake: "none" | "valid" | "invalid"
    allow_web_test, \* EMOTION_NO_AUTH_WEB_TEST is "true"
    raw_frames,     \* frames the client sends besides its `message` frames
    \* ---- stream_noa_response (one call) -----------------------------------
    gw,
    \* ---- services next to the handler (their own specifications) ----------
    tasks,          \* rows of the task table, in commit order
    rec,            \* one call of _recommend_tasks_async and its worker thread
    health,         \* one request of GET /health/llm/stream
    refresh,        \* the refreshtoken table and the requests of POST /auth/refresh
    overlap,        \* turn executions on one session: the pipeline and POST /steps/generate
    risk            \* one evaluation of risk_from_payload

turn_vars == <<user_text, prep, llm_rest, assistant_chunks, stream_failed_reason,
               assistant_text, end_by_token, new_step, out_frame>>
hist_vars == <<turn_status, steps_before, turn_frames, commits, commit_log, bp_hit,
               mark_tried>>
conn_vars == <<mode, pc, shutdown, send_queue, sender_state, ws_state, close_code,
               recommend_fuse_tripped>>
store_vars == <<db_steps, ended_at>>
env_vars == <<client_texts, llm_streams, raw_token, allow_web_test, raw_frames>>
ext_vars == <<refresh, overlap, risk>>
api_vars == <<health, ext_vars>>
svc_vars == <<tasks, rec, api_vars>>
other_vars == <<env_vars, svc_vars, gw, fatal, loop_writing, accepted, session_id, event>>
vars == <<store_vars, conn_vars, turn_vars, hist_vars, other_vars>>

----------------------------------------------------------------------------
(* Bounds of the model *)

\* committed turns explored per behaviour (dropped turns are not counted)
MaxCommits == 1

----------------------------------------------------------------------------
(* Text helpers *)

WS == " "

RECURSIVE lstrip(_)
lstrip(t) == IF t # <<>> /\ Head(t) = WS THEN lstrip(Tail(t)) ELSE t

RECURSIVE rstrip(_)
rstrip(t) ==
    IF t # <<>> /\ t[Len(t)] = WS THEN rstrip(SubSeq(t, 1, Len(t) - 1)) ELSE t

\* str.strip()
strip(t) == rstrip(lstrip(t))

\* two strings put end to end: a word the fragment boundary had cut in two
\* ("<<SY" at the end of one, "S>>" at the start of the next) is one word again
glue(a, b) ==
    IF a # <<>> /\ b # <<>> /\ a[Len(a)] = "<<SY" /\ Head(b) = "S>>"
    THEN SubSeq(a, 1, Len(a) - 1) \o <<"<<SYS>>">> \o Tail(b)
    ELSE a \o b

RECURSIVE join(_)
\* "".join(chunks)
join(chunks) == IF chunks = <<>> THEN <<>> ELSE glue(Head(chunks), join(Tail(chunks)))

RECURSIVE remove_token(_, _)
\* text.replace(tok, "")
remove_token(t, tok) ==
    IF t = <<>> THEN <<>>
    ELSE IF Head(t) = tok THEN remove_token(Tail(t), tok)
    ELSE <<Head(t)>> \o remove_token(Tail(t), tok)

contains(t, tok) == \E i \in 1..Len(t) : t[i] = tok

----------------------------------------------------------------------------
(* services/step_manager.py *)

SOFT_TIMEOUT_TURNS == 3
END_SESSION_TOKEN == "__END_SESSION__"
END_SESSION_FAREWELL_WORDS ==
    <<"thanks", "today", "together", "for_this", "well", "spent", "again", "see_you">>

norm(text) == strip(text)

has_any(text, keywords) ==
    IF text = <<>> THEN FALSE ELSE \E i \in 1..Len(text) : text[i] \in keywords

GREETINGS == {"hi", "hello"}

is_greeting_only(text) ==
    LET t == norm(text) IN
    IF t = <<>> THEN TRUE ELSE Len(t) = 1 /\ t[1] \in GREETINGS

EMOTION_WORDS   == {"glad", "tired"}
SITUATION_WORDS == {"when", "today"}
BODY_WORDS      == {"heart"}
THOUGHT_WORDS   == {"think"}
BELIEF_WORDS    == {"must"}
ACTION_WORDS    == {"did"}
SUMMARY_MARKERS == {"recap"}
NEED_WORDS      == {"want"}
REFRAME_MARKERS == {"reframe"}

MAX_STEP == 11

\* STEP_METADATA[step - 1].advance_when(user_text, assistant_text)
advance_when(step, u, a) ==
    CASE step = 1  -> ~is_greeting_only(u)
      [] step = 2  -> has_any(u, EMOTION_WORDS)
      [] step = 3  -> has_any(u, SITUATION_WORDS)
      [] step = 4  -> has_any(u, BODY_WORDS)
      [] step = 5  -> has_any(u, THOUGHT_WORDS)
      [] step = 6  -> has_any(u, BELIEF_WORDS)
      [] step = 7  -> has_any(u, ACTION_WORDS)
      [] step = 8  -> has_any(a, SUMMARY_MARKERS)
      [] step = 9  -> has_any(u, NEED_WORDS)
      [] step = 10 -> has_any(a, REFRAME_MARKERS)
      [] OTHER     -> FALSE

clamp_step(step) ==
    IF step < 1 THEN 1 ELSE IF step > MAX_STEP THEN MAX_STEP ELSE step

\* faulty variant: the predicate of the stage just entered is tried on the
\* same texts
advance_step_twice(current_step, u, a) ==
    LET step == clamp_step(current_step) IN
    IF step >= MAX_STEP THEN MAX_STEP
    ELSE IF ~advance_when(step, norm(u), norm(a)) THEN step
    ELSE IF advance_when(step + 1, norm(u), norm(a)) THEN clamp_step(step + 2)
    ELSE step + 1

\* faulty variant: a bare greeting starts the conversation over
advance_step_or_restart(current_step, u, a) ==
    LET step == clamp_step(current_step) IN
    IF step >= MAX_STEP THEN MAX_STEP
    ELSE IF norm(u) # <<>> /\ is_greeting_only(u) THEN 1
    ELSE IF advance_when(step, norm(u), norm(a)) THEN step + 1 ELSE step

advance_step(current_step, u, a) ==
    LET step == clamp_step(current_step) IN
    IF step >= MAX_STEP THEN MAX_STEP
    ELSE IF advance_when(step, norm(u), norm(a)) THEN step + 1 ELSE step

RECURSIVE step_status_from(_, _, _, _)
\* the loop of compute_step_status with its three locals
step_status_from(steps, step, pending_user, stagnant_turns) ==
    IF steps = <<>> THEN <<clamp_step(step), stagnant_turns>>
    ELSE
      LET s == Head(steps) IN
      IF s.step_type = "user" THEN
          step_status_from(Tail(steps), step, s.user_input, stagnant_turns)
      ELSE IF s.step_type = "assistant" THEN
          LET after_user == advance_step(step, pending_user, <<>>)
              after == IF after_user # step THEN after_user
                       ELSE advance_step(step, pending_user, s.gpt_response)
          IN step_status_from(Tail(steps), after, <<>>,
                              IF after = step THEN stagnant_turns + 1 ELSE 0)
      ELSE step_status_from(Tail(steps), step, pending_user, stagnant_turns)

compute_step_status(steps) == step_status_from(steps, 1, <<>>, 0)

compute_current_step(steps) == clamp_step(compute_step_status(steps)[1])

step_for_prompt(steps, pending_user_text) ==
    advance_step(compute_current_step(steps), pending_user_text, <<>>)

step_after_turn(steps, u, a) ==
    LET history_step == compute_current_step(steps)
        after_user == advance_step(history_step, u, <<>>)
    IN IF after_user # history_step THEN after_user
       ELSE advance_step(history_step, u, a)

RECURSIVE join_words(_)
\* " ".join(words)
join_words(words) ==
    IF Len(words) <= 1 THEN words
    ELSE <<Head(words), WS>> \o join_words(Tail(words))

build_fixed_farewell == join_words(END_SESSION_FAREWELL_WORDS)

\* "" below MAX_STEP, the [SESSION END] block at MAX_STEP
build_end_session_context(current_step) ==
    IF clamp_step(current_step) < MAX_STEP THEN <<>>
    ELSE <<"[SESSION END]">> \o build_fixed_farewell \o <<END_SESSION_TOKEN>>

build_soft_timeout_hint(steps, pending_user_text) ==
    LET stagnant_turns == compute_step_status(steps)[2]
        threshold == IF SOFT_TIMEOUT_TURNS < 1 THEN 1 ELSE SOFT_TIMEOUT_TURNS
    IN IF stagnant_turns < threshold THEN <<>>
       ELSE <<"[SOFT TIMEOUT]", "keep the current step">>

\* faulty variant: the sentinel is never looked for
extract_nothing(text) == <<text, FALSE>>

\* returns <<cleaned text, end_by_token>>
extract_end_session_marker(text) ==
    IF text = <<>> THEN <<(<<>>), FALSE>>
    ELSE IF ~contains(text, END_SESSION_TOKEN) THEN <<text, FALSE>>
    ELSE <<strip(remove_token(text, END_SESSION_TOKEN)), TRUE>>

----------------------------------------------------------------------------
(* routers/emotion_ws.py: LeakGuard.  hash(window) is the window itself.   *)

\* LEAK_GUARD_NGRAM and LEAK_GUARD_MIN_MATCH are read from the environment; the
\* n-gram is set to 6 tokens (stride max(3, 6 // 2) = 3), so that a text of
\* thirteen tokens has the three windows min_match asks for.
LEAK_GUARD_NGRAM == 6
LEAK_GUARD_MIN_MATCH == 3

DEFAULT_MARKERS ==
    {"<<SYS>>", "BEGIN SYSTEM PROMPT", "[SYSTEM]", "DO NOT DISCLOSE", "developer prompt"}

\* range(0, max(0, len - n + 1), max(3, n // 2))
window_starts(len, n) ==
    LET step == IF n \div 2 < 3 THEN 3 ELSE n \div 2
    IN {i \in 0..(len - n) : i % step = 0}

fingerprint(text, n) ==
    IF text = <<>> THEN {}
    ELSE {SubSeq(text, i + 1, i + n) : i \in window_starts(Len(text), n)}

might_leak(text, sys_fp, n) ==
    IF text = <<>> \/ sys_fp = {} THEN FALSE
    ELSE Cardinality(sys_fp \cap fingerprint(text, n)) >= LEAK_GUARD_MIN_MATCH

\* the marker a token is read as under re.I and \s*: its spelling in another
\* case or with blanks inside the brackets
marker_form(tok) ==
    CASE tok = "do not disclose" -> "DO NOT DISCLOSE"
      [] tok = "[ system ]"      -> "[SYSTEM]"
      [] OTHER                   -> tok

\* faulty variant: the patterns are matched as literal, case-sensitive text
redact_exact(text) ==
    [i \in 1..Len(text) |-> IF text[i] \in DEFAULT_MARKERS THEN "[redacted]" ELSE text[i]]

\* re.sub(pat, "[redacted]", out, flags=re.I) for each marker in turn
redact(text) ==
    [i \in 1..Len(text) |->
        IF marker_form(text[i]) \in DEFAULT_MARKERS THEN "[redacted]" ELSE text[i]]

sanitize_out(piece, sys_fp, md) ==
    IF piece = <<>> THEN <<>>
    ELSE IF might_leak(piece, sys_fp, LEAK_GUARD_NGRAM)
         THEN (IF md = "drop" THEN <<>> ELSE redact(piece))
         ELSE redact(piece)

\* get_system_prompt(): the prompt file, thirteen tokens long
SYSTEM_PROMPT ==
    <<"p01", "p02", "p03", "p04", "p05", "p06", "p07", "p08", "p09", "p10", "p11", "p12",
      "p13">>

\* sys_fp = leak_guard.fingerprint(system_prompt), set when the session is opened
sys_fp == fingerprint(SYSTEM_PROMPT, LEAK_GUARD_NGRAM)

----------------------------------------------------------------------------
(* services/convo_policy.py *)

ACTIVITY_STEP_TYPE == "activity_suggest"

\* faulty variant: the policy does not look for an earlier marker
already_fired_unchecked(db) == FALSE

\* _already_fired: the session has a row of the marker kind
already_fired(db) == \E i \in 1..Len(db) : db[i].step_type = ACTIVITY_STEP_TYPE

HARD_TRIGGERS == {"tired", "burnout"}

\* str.lower() on the tokens that have an upper-case form
lower(text) ==
    [i \in 1..Len(text) |-> IF text[i] = "TIRED" THEN "tired" ELSE text[i]]

\* faulty variant: the first message of a session may trigger as well
is_activity_turn_on_empty(text, db, steps) ==
    IF already_fired(db) THEN FALSE
    ELSE IF steps # <<>>
            /\ steps[Len(steps)].step_type \in {"analysis", "insight", "emotion_summary"}
         THEN TRUE
    ELSE has_any(lower(text), HARD_TRIGGERS)

\* steps is the list the caller loaded, db the table the policy queries itself
is_activity_turn(text, db, steps) ==
    IF already_fired(db) THEN FALSE
    ELSE IF steps = <<>> THEN FALSE
    ELSE IF steps[Len(steps)].step_type \in {"analysis", "insight", "emotion_summary"}
         THEN TRUE
    ELSE has_any(lower(text), HARD_TRIGGERS)

----------------------------------------------------------------------------
(* Conversation store: models/emotion.py, db/session.py *)

\* a row of emotionstep; turn is a history field: 0 for rows that exist at Init,
\* otherwise the number of the committed turn that wrote the row
EmotionStep(order, type, u, g, at, turn) ==
    [step_order |-> order, step_type |-> type, user_input |-> u,
     gpt_response |-> g, created_at |-> at, turn |-> turn]

\* faulty variant: the table has no unique constraint
unique_violation_unchecked(db, rows) == FALSE

\* UniqueConstraint("session_id", "step_order"): the flush of rows is rejected
unique_violation(db, rows) ==
    \E i \in 1..Len(db), j \in 1..Len(rows) : db[i].step_order = rows[j].step_order

\* faulty variant: the row flushed first survives the failed transaction
rollback_keeps_flushed(db, rows) == db \o <<rows[1]>>

\* session_scope: an exception leaves the transaction rolled back
rollback(db, rows) == db

permutations(s) ==
    {[i \in 1..Len(s) |-> s[p[i]]] :
        p \in {q \in [1..Len(s) -> 1..Len(s)] :
                 \A i, j \in 1..Len(s) : i # j => q[i] # q[j]}}

RECURSIVE run_len(_)
\* length of the leading run of rows that share one created_at
run_len(rows) ==
    IF Len(rows) <= 1 THEN Len(rows)
    ELSE IF rows[2].created_at = rows[1].created_at THEN 1 + run_len(Tail(rows))
    ELSE 1

RECURSIVE order_by_created_at(_)
\* the result lists of ORDER BY created_at ASC: rows with equal created_at come
\* in any order (rows are inserted with non-decreasing created_at)
order_by_created_at(rows) ==
    IF rows = <<>> THEN {<<>>}
    ELSE LET n == run_len(rows) IN
         {p \o rest : p \in permutations(SubSeq(rows, 1, n)),
                      rest \in order_by_created_at(SubSeq(rows, n + 1, Len(rows)))}

last_created_at(db) == IF db = <<>> THEN 0 ELSE db[Len(db)].created_at

\* the rows _commit_full_turn adds; each created_at is a fresh utcnow(): the
\* second and the third are d2 and d3 clock ticks after the one before (0: the
\* clock did not advance between the two constructors)
commit_rows(u, a, user_order, assistant_order, add_activity_marker, t1, d2, d3, turn) ==
    <<EmotionStep(user_order, "user", u, <<>>, t1, turn),
      EmotionStep(assistant_order, "assistant", <<>>, a, t1 + d2, turn)>>
    \o (IF add_activity_marker
        THEN <<EmotionStep(assistant_order + 1, ACTIVITY_STEP_TYPE, <<>>, <<>>,
                           t1 + d2 + d3, turn)>>
        ELSE <<>>)

\* _prepare_message_context on the list `steps` the query returned
prepare_message_context(db, steps, text) ==
    LET last_order == IF steps = <<>> THEN 0 ELSE steps[Len(steps)].step_order
        current_step == step_for_prompt(steps, text)
    IN [steps |-> steps,
        want_activity |-> is_activity_turn(text, db, steps),
        user_order |-> last_order + 1,
        assistant_order |-> last_order + 2,
        current_step |-> current_step,
        end_session_context |-> build_end_session_context(current_step),
        soft_timeout_hint |-> build_soft_timeout_hint(steps, text)]

NoPrep == prepare_message_context(<<>>, <<>>, <<>>)

----------------------------------------------------------------------------
(* Inputs *)

Ok    == <<"ok">>
Tired == <<"so", "tired">>
Fine  == <<"fine">>

\* user texts of accepted messages: a plain text, a text with a hard trigger
\* (also an emotion word)
UserTexts == {Ok, Tired}

\* what one call of stream_noa_response yields before it ends, raises or hangs
LLMStreams ==
    { <<>>,                                 \* nothing
      << <<WS>> >>,                         \* whitespace only
      << SYSTEM_PROMPT >>,                  \* an echo of the system prompt
      << <<"try", "reframe">> >>,           \* a reply with a reframe marker
      << Fine, <<WS, END_SESSION_TOKEN>> >>, \* a reply ending in the sentinel
      << <<END_SESSION_TOKEN>> >>,          \* the sentinel alone
      << <<"[SYSTEM]", "be">>, <<"do not disclose">> >>,  \* marker patterns
      << SYSTEM_PROMPT \o <<"[ system ]">> >>,  \* an echo with a marker pattern
      << <<"<<SY">>, <<"S>>">> >> }         \* a marker cut by the fragment boundary

RECURSIVE replay(_, _)
\* the store after the turns of `script` (<<user text, reply>> pairs) were run
\* one after the other on `db` with distinct timestamps
replay(db, script) ==
    IF script = <<>> THEN db
    ELSE LET t == Head(script)
             p == prepare_message_context(db, db, t[1])
             rows == commit_rows(t[1], t[2], p.user_order, p.assistant_order,
                                 p.want_activity, last_created_at(db) + 1, 1, 1, 0)
         IN replay(db \o rows, Tail(script))

\* ten turns that each advance the stage, without a hard trigger
AdvancingScript ==
    << <<Ok, Fine>>, <<(<<"glad">>), Fine>>, <<(<<"when">>), Fine>>,
       <<(<<"heart">>), Fine>>, <<(<<"think">>), Fine>>, <<(<<"must">>), Fine>>,
       <<(<<"did">>), Fine>>, <<Ok, <<"recap">> >>, <<(<<"want">>), Fine>>,
       <<Ok, <<"try", "reframe">> >> >>

History(k) == replay(<<>>, SubSeq(AdvancingScript, 1, k))

\* two turns, the second with a hard trigger: it wrote the activity marker
HistoryWithMarker == replay(<<>>, << <<Ok, Fine>>, <<Tired, Fine>> >>)

\* one turn whose two rows got the same created_at
HistoryWithTie == commit_rows(Ok, Fine, 1, 2, FALSE, 1, 0, 0, 0)

InitHistories ==
    {History(0), History(9), History(10), HistoryWithMarker, HistoryWithTie}

----------------------------------------------------------------------------
(* routers/emotion_ws.py: configuration and frames *)

\* WSConfig.WS_SEND_BUFFER (capacity of send_queue), set small by the environment
WS_SEND_BUFFER == 1

\* WSConfig.WS_MAX_USER_TEXT_LEN, in bytes
WS_MAX_USER_TEXT_LEN == 8192

\* len(tok.encode("utf-8")) of one token: "4KiB" is a block of 4096 bytes
token_bytes(tok) == IF tok = "4KiB" THEN 4096 ELSE 4

RECURSIVE utf8_len(_)
utf8_len(text) ==
    IF text = <<>> THEN 0 ELSE token_bytes(Head(text)) + utf8_len(Tail(text))

Oversized == <<"4KiB", "4KiB", "x">>

\* a text of exactly WS_MAX_USER_TEXT_LEN bytes
AtCeiling == <<"4KiB", "4KiB">>

\* faulty variant: a text of exactly the ceiling is refused
too_large_at_ceiling(text) == utf8_len(text) >= WS_MAX_USER_TEXT_LEN

\* `len(user_text.encode("utf-8")) > CFG.WS_MAX_USER_TEXT_LEN`
too_large(text) == utf8_len(text) > WS_MAX_USER_TEXT_LEN

Frame(type, message, step, turn_dropped) ==
    [type |-> type, message |-> message, step |-> step, turn_dropped |-> turn_dropped]

ErrorFrame(message, turn_dropped) == Frame("error", <<message>>, 0, turn_dropped)
Plain(type) == Frame(type, <<>>, 0, FALSE)

\* close_ws(code): <<shutdown, ws_state, close_code>> after the call
close_ws(sd, ws, cc, code) ==
    IF sd THEN <<sd, ws, cc>>
    ELSE <<TRUE, "closed", IF ws = "open" THEN code ELSE cc>>

\* faulty variant: guard_send does not look at shutdown
guard_send_never_skips(sd) == FALSE

\* guard_send: `if shutdown.is_set(): return`
guard_send_skips(sd) == sd

\* await guard_send(data) at one position of the receive loop: the frame is put
\* on the queue and the loop goes on at ok_pc; with the queue full for
\* WS_HEARTBEAT_SEC the put times out: shutdown is set and an error frame is
\* written past the queue with _ws_send_safe(websocket, ..., timeout=1); while
\* that write is in flight loop_writing holds.  When it is over (DirectWriteEnds)
\* close_ws(1013) is called, which returns at once because shutdown is set, and
\* SendBackpressure is raised, which takes the loop to bp_pc
guard_send(data, ok_pc, bp_pc) ==
    IF guard_send_skips(shutdown)
    THEN /\ pc' = ok_pc
         /\ UNCHANGED <<send_queue, shutdown, ws_state, close_code, turn_frames, bp_hit,
                        loop_writing>>
    ELSE \/ /\ Len(send_queue) < WS_SEND_BUFFER
            /\ send_queue' = Append(send_queue, data)
            /\ turn_frames' = Append(turn_frames, data)
            /\ pc' = ok_pc
            /\ UNCHANGED <<shutdown, ws_state, close_code, bp_hit, loop_writing>>
         \/ /\ Len(send_queue) >= WS_SEND_BUFFER
            /\ LET c == close_ws(TRUE, ws_state, close_code, 1013) IN
               /\ shutdown' = c[1]
               /\ ws_state' = c[2]
               /\ close_code' = c[3]
            /\ bp_hit' = TRUE
            /\ loop_writing' = TRUE
            /\ pc' = bp_pc
            /\ UNCHANGED <<send_queue, turn_frames>>

\* the write of the backpressure error frame returns, fails or times out
DirectWriteEnds ==
    /\ loop_writing
    /\ loop_writing' = FALSE
    /\ UNCHANGED <<store_vars, conn_vars, turn_vars, hist_vars, env_vars, svc_vars, gw, fatal, accepted, session_id, event>>

----------------------------------------------------------------------------
(* ws_emotion: the receive loop *)

\* _decode_user_id_from_token: a user id comes out of a valid token only
decode_user_id_from_token(token) == token = "valid"

\* faulty variant: a token that does not decode is treated like no token
token_rejected_never(token) == FALSE

\* `if raw_token and not auth_user_id`
token_rejected(token) == token # "none" /\ ~decode_user_id_from_token(token)

\* resolve_emotion_user_id(db, current_user)
resolve_emotion_user_id(current_user, web_test) ==
    IF current_user THEN "user"
    ELSE IF web_test THEN "web_test_user"
    ELSE "HTTPException"

\* websocket.close(code) and `return` before the handler has any task
reject(code, met) ==
    /\ ws_state' = "closed"
    /\ close_code' = code
    /\ fatal' = met
    /\ pc' = "done"
    /\ UNCHANGED <<accepted, sender_state>>

\* the handshake: the token is validated before the connection is accepted;
\* then accept() and the sender task is created
Authenticate ==
    /\ pc = "connect"
    /\ IF token_rejected(raw_token)
       THEN reject(4401, "auth")
       ELSE LET who == resolve_emotion_user_id(decode_user_id_from_token(raw_token),
                                               allow_web_test)
            IN CASE who = "HTTPException" -> reject(4401, "auth")
                 [] who = "web_test_user" ->
                      \/ reject(1011, "none")   \* ensure_web_test_user raises
                      \/ /\ accepted' = TRUE
                         /\ sender_state' = "get"
                         /\ pc' = "bootstrap"
                         /\ UNCHANGED <<ws_state, close_code, fatal>>
                 [] OTHER ->
                      /\ accepted' = TRUE
                      /\ sender_state' = "get"
                      /\ pc' = "bootstrap"
                      /\ UNCHANGED <<ws_state, close_code, fatal>>
    /\ UNCHANGED <<store_vars, mode, shutdown, send_queue, recommend_fuse_tripped,
                   turn_vars, hist_vars, env_vars, svc_vars, gw, loop_writing, session_id, event>>

\* _bootstrap_open_if_possible and the `if not ok` after it: the user is looked
\* up, the session is created and open_ok is enqueued; when the user is missing
\* the transport is closed with 4401, when a call raises close_ws(1011) is
\* called; in both cases the sender task is cancelled and the handler returns
Bootstrap ==
    /\ pc = "bootstrap"
    /\ \/ /\ raw_token = "valid"
          /\ ws_state' = "closed"
          /\ close_code' = 4401
          /\ fatal' = "auth"
          /\ sender_state' = "done"
          /\ pc' = "done"
          /\ UNCHANGED <<shutdown, send_queue, turn_frames, bp_hit, loop_writing,
                         session_id>>
       \/ /\ LET c == close_ws(shutdown, ws_state, close_code, 1011) IN
             /\ shutdown' = c[1]
             /\ ws_state' = c[2]
             /\ close_code' = c[3]
          /\ sender_state' = "done"
          /\ pc' = "done"
          /\ UNCHANGED <<send_queue, turn_frames, bp_hit, loop_writing, session_id,
                         fatal>>
       \/ /\ session_id' = "created"
          /\ guard_send(Plain("open_ok"), "recv", "finally")
          /\ UNCHANGED <<sender_state, fatal>>
    /\ UNCHANGED <<store_vars, mode, recommend_fuse_tripped, turn_vars, turn_status,
                   steps_before, commits, commit_log, mark_tried, env_vars, svc_vars, gw,
                   accepted, event>>

Running == pc = "recv" /\ ~shutdown

\* websocket.receive() can return a frame: the client has not closed
Receiving == Running /\ ws_state = "open"

----------------------------------------------------------------------------
(* Inbound frames: _ws_recv_safe *)

MSG_PING == "ping"
MSG_OPEN == "open"
MSG_MESSAGE == "message"
MSG_CLOSE == "close"
MSG_TASK_RECOMMEND == "task_recommend"

\* the types a branch of the loop handles
MSG_TYPES == {MSG_PING, MSG_OPEN, MSG_MESSAGE, MSG_CLOSE, MSG_TASK_RECOMMEND}

\* the dict json.loads gives: the value of "type" ("" when the key is absent),
\* whether "text" is present, and its value
JsonObject(type, has_text, text) ==
    [type |-> type, has_text |-> has_text, text |-> text]

NoObject == JsonObject("", FALSE, <<>>)

\* an event of websocket.receive(): kind is "text" or "bytes"; chars is the
\* stripped text; loads is what json.loads(chars) does ("raises", or the kind
\* of value it returns: "dict" | "list") and obj the dict it returns
ClientEvent(kind, chars, loads, obj) ==
    [kind |-> kind, chars |-> chars, loads |-> loads, obj |-> obj]

NoEvent == ClientEvent("none", <<>>, "raises", NoObject)

\* a binary frame
BinaryFrame == ClientEvent("bytes", <<>>, "raises", NoObject)

\* {"type": "message", "text": text}
MessageFrame(text) ==
    ClientEvent("text", <<"{", MSG_MESSAGE>> \o text \o <<"}">>, "dict",
                JsonObject(MSG_MESSAGE, TRUE, text))

\* {"type": type} and no other key
TypedFrame(type) ==
    ClientEvent("text", <<"{", type, "}">>, "dict", JsonObject(type, FALSE, <<>>))

\* an object that is not terminated
BrokenJson == ClientEvent("text", <<"{", "tired">>, "raises", NoObject)

\* {} : an object without "type", "user_input" and "text"
UntypedJson == ClientEvent("text", <<"{", "}">>, "dict", NoObject)

\* the bare word ping
PingWord == ClientEvent("text", <<MSG_PING>>, "raises", NoObject)

\* what _ws_recv_safe returns (result "msg": the dict, "none": None) or raises
\* (result "InvalidPayload" with its reason)
Parsed(result, type, has_text, text, reason) ==
    [result |-> result, type |-> type, has_text |-> has_text, text |-> text,
     reason |-> reason]

\* `t and (t.startswith("{") or t.startswith("["))`
looks_like_json(t) == t # <<>> /\ t[1] \in {"{", "["}

\* faulty variant: the loop asks for the tolerant parse
strict_json_off == FALSE

\* the loop calls _ws_recv_safe(..., strict_json=True)
strict_json == TRUE

\* the parse strategies in the order of the code: JSON (a dict with "type" is
\* returned as it is, a dict with a text becomes a `message`), the bare words,
\* and any other text as the text of a `message`; a JSON-looking text that
\* json.loads refuses raises when strict, and so does a binary frame. The
\* query-string strategy is left out: no frame of the model holds "=" and "&".
ws_recv_safe(ev, strict) ==
    IF ev.kind = "text"
    THEN LET t == ev.chars IN
         IF looks_like_json(t) /\ ev.loads = "raises" /\ strict
         THEN Parsed("InvalidPayload", "", FALSE, <<>>, "invalid_json")
         ELSE IF looks_like_json(t) /\ ev.loads = "dict" /\ ev.obj.type # ""
         THEN Parsed("msg", ev.obj.type, ev.obj.has_text, ev.obj.text, "")
         ELSE IF looks_like_json(t) /\ ev.loads = "dict" /\ ev.obj.has_text
         THEN Parsed("msg", MSG_MESSAGE, TRUE, ev.obj.text, "")
         ELSE IF t \in {<<MSG_PING>>, <<MSG_OPEN>>, <<MSG_CLOSE>>}
         THEN Parsed("msg", t[1], FALSE, <<>>, "")
         ELSE Parsed("msg", MSG_MESSAGE, TRUE, t, "")
    ELSE IF ev.kind = "bytes"
    THEN Parsed("InvalidPayload", "", FALSE, <<>>, "binary_frames_not_allowed")
    ELSE Parsed("none", "", FALSE, <<>>, "")

\* the frames the client may send
ClientEvents == {MessageFrame(text) : text \in client_texts} \cup raw_frames

\* the locals of the message branch before a message is accepted
ResetTurn ==
    /\ prep' = NoPrep
    /\ llm_rest' = <<>>
    /\ assistant_chunks' = <<>>
    /\ stream_failed_reason' = ""
    /\ assistant_text' = <<>>
    /\ end_by_token' = FALSE
    /\ new_step' = 0
    /\ mark_tried' = FALSE

\* another branch of the loop is taken: the locals of the message branch are dead
ForgetTurn ==
    /\ ResetTurn
    /\ user_text' = <<>>
    /\ steps_before' = db_steps

\* a `message` frame: EmotionMessageRequest(**msg), user_text is set, then the
\* byte ceiling
RecvMessage ==
    /\ Receiving
    /\ commits < MaxCommits
    /\ \E ev \in ClientEvents :
        LET msg == ws_recv_safe(ev, strict_json)
            text == msg.text
        IN
        /\ msg.result = "msg" /\ msg.type = MSG_MESSAGE /\ msg.has_text
        /\ event' = ev
        /\ user_text' = text
        /\ ResetTurn
        /\ steps_before' = db_steps
        /\ IF too_large(text)
           THEN /\ out_frame' = ErrorFrame("message_too_large", FALSE)
                /\ pc' = "send_last"
                /\ turn_status' = "none"
           ELSE /\ out_frame' = Plain("none")
                /\ pc' = "prep"
                /\ turn_status' = "running"
    /\ turn_frames' = <<>>
    /\ UNCHANGED <<store_vars, mode, shutdown, send_queue, sender_state, ws_state,
                   close_code, recommend_fuse_tripped, commits, commit_log, bp_hit, env_vars, svc_vars, gw, fatal, loop_writing, accepted, session_id>>

\* a `message` frame without a text: the payload fails validation
RecvBadPayload ==
    /\ Receiving
    /\ \E ev \in ClientEvents :
        LET msg == ws_recv_safe(ev, strict_json) IN
        /\ msg.result = "msg" /\ msg.type = MSG_MESSAGE /\ ~msg.has_text
        /\ event' = ev
    /\ out_frame' = ErrorFrame("bad message payload", FALSE)
    /\ pc' = "send_last"
    /\ turn_status' = "none"
    /\ turn_frames' = <<>>
    /\ ForgetTurn
    /\ UNCHANGED <<store_vars, mode, shutdown, send_queue, sender_state, ws_state,
                   close_code, recommend_fuse_tripped, commits, commit_log, bp_hit, env_vars, svc_vars, gw, fatal, loop_writing, accepted, session_id>>

\* a `ping` frame
RecvPing ==
    /\ Receiving
    /\ \E ev \in ClientEvents :
        LET msg == ws_recv_safe(ev, strict_json) IN
        /\ msg.result = "msg" /\ msg.type = MSG_PING
        /\ event' = ev
    /\ out_frame' = Plain("pong")
    /\ pc' = "send_last"
    /\ turn_status' = "none"
    /\ turn_frames' = <<>>
    /\ ForgetTurn
    /\ UNCHANGED <<store_vars, mode, shutdown, send_queue, sender_state, ws_state,
                   close_code, recommend_fuse_tripped, commits, commit_log, bp_hit, env_vars, svc_vars, gw, fatal, loop_writing, accepted, session_id>>

\* a well-formed frame whose type no branch handles: one error frame, and the
\* loop goes on
RecvUnknownType ==
    /\ Receiving
    /\ \E ev \in ClientEvents :
        LET msg == ws_recv_safe(ev, strict_json) IN
        /\ msg.result = "msg" /\ msg.type \notin MSG_TYPES
        /\ event' = ev
    /\ out_frame' = ErrorFrame("unknown type", FALSE)
    /\ pc' = "send_last"
    /\ turn_status' = "none"
    /\ turn_frames' = <<>>
    /\ ForgetTurn
    /\ UNCHANGED <<store_vars, mode, shutdown, send_queue, sender_state, ws_state,
                   close_code, recommend_fuse_tripped, commits, commit_log, bp_hit, env_vars, svc_vars, gw, fatal, loop_writing, accepted, session_id>>

\* WS_IDLE_TIMEOUT passes without a frame: one error frame, then break
RecvIdleTimeout ==
    /\ Receiving
    /\ out_frame' = ErrorFrame("idle_timeout", FALSE)
    /\ pc' = "send_break"
    /\ fatal' = "idle_timeout"
    /\ turn_status' = "none"
    /\ turn_frames' = <<>>
    /\ ForgetTurn
    /\ event' = NoEvent
    /\ UNCHANGED <<store_vars, mode, shutdown, send_queue, sender_state, ws_state,
                   close_code, recommend_fuse_tripped, commits, commit_log, bp_hit,
                   env_vars, svc_vars, gw, loop_writing, accepted, session_id>>

\* the client closes the transport, or has closed it during the last turn:
\* websocket.receive() raises WebSocketDisconnect, break
RecvDisconnect ==
    /\ Running
    /\ pc' = "finally"
    /\ ws_state' = "closed"
    /\ close_code' = IF ws_state = "open" THEN 1001 ELSE close_code
    /\ turn_status' = "none"
    /\ turn_frames' = <<>>
    /\ out_frame' = Plain("none")
    /\ ForgetTurn
    /\ event' = NoEvent
    /\ UNCHANGED <<store_vars, mode, shutdown, send_queue, sender_state,
                   recommend_fuse_tripped, commits, commit_log, bp_hit, env_vars, svc_vars, gw, fatal, loop_writing, accepted, session_id>>

\* _close_session_record: `s.ended_at = datetime.utcnow()`, whatever it held
close_session_record(at, ok) == IF ok THEN at + 1 ELSE at

\* _mark_session_ended: `if s and not s.ended_at: s.ended_at = datetime.utcnow()`
mark_session_ended(at, ok) == IF ok /\ at = 0 THEN at + 1 ELSE at

\* a `close` frame: _close_session_record in its own transaction, close_ok, break;
\* when the update raises: one error frame, continue
RecvClose ==
    /\ Receiving
    /\ \E ev \in ClientEvents :
        LET msg == ws_recv_safe(ev, strict_json) IN
        /\ msg.result = "msg" /\ msg.type = MSG_CLOSE
        /\ event' = ev
    /\ \E ok \in BOOLEAN :
        /\ ended_at' = close_session_record(ended_at, ok)
        /\ out_frame' = IF ok THEN Plain("close_ok") ELSE ErrorFrame("close_failed", FALSE)
        /\ pc' = IF ok THEN "send_break" ELSE "send_last"
        /\ fatal' = IF ok THEN "close" ELSE fatal
    /\ turn_status' = "none"
    /\ turn_frames' = <<>>
    /\ ForgetTurn
    /\ UNCHANGED <<db_steps, mode, shutdown, send_queue, sender_state, ws_state,
                   close_code, recommend_fuse_tripped, commits, commit_log, bp_hit,
                   env_vars, svc_vars, gw, loop_writing, accepted, session_id>>

\* a frame that is not valid JSON, or a binary frame: InvalidPayload; one error
\* frame, close_ws(1007), break
RecvInvalidPayload ==
    /\ Receiving
    /\ \E ev \in ClientEvents :
        LET msg == ws_recv_safe(ev, strict_json) IN
        /\ msg.result = "InvalidPayload"
        /\ event' = ev
        /\ out_frame' = ErrorFrame(msg.reason, FALSE)
    /\ pc' = "send_invalid"
    /\ turn_status' = "none"
    /\ turn_frames' = <<>>
    /\ ForgetTurn
    /\ UNCHANGED <<store_vars, mode, shutdown, send_queue, sender_state, ws_state,
                   close_code, recommend_fuse_tripped, commits, commit_log, bp_hit, env_vars, svc_vars, gw, fatal, loop_writing, accepted, session_id>>

SendInvalid ==
    /\ pc = "send_invalid"
    /\ guard_send(out_frame, "close_invalid", "finally")
    /\ UNCHANGED <<store_vars, mode, sender_state, recommend_fuse_tripped, turn_vars,
                   turn_status, steps_before, commits, commit_log, mark_tried, env_vars, svc_vars, gw, fatal, accepted, session_id, event>>

\* await close_ws(code=1007, ...), then break
CloseInvalid ==
    /\ pc = "close_invalid"
    /\ LET c == close_ws(shutdown, ws_state, close_code, 1007) IN
       /\ shutdown' = c[1]
       /\ ws_state' = c[2]
       /\ close_code' = c[3]
    /\ pc' = "finally"
    /\ UNCHANGED <<store_vars, mode, send_queue, sender_state, recommend_fuse_tripped,
                   turn_vars, hist_vars, other_vars>>

\* a `task_recommend` frame: with the fuse tripped one error frame, otherwise
\* the recommender is awaited
RecvTaskRecommend ==
    /\ Receiving
    /\ \E ev \in ClientEvents :
        LET msg == ws_recv_safe(ev, strict_json) IN
        /\ msg.result = "msg" /\ msg.type = MSG_TASK_RECOMMEND
        /\ event' = ev
    /\ out_frame' = IF recommend_fuse_tripped
                    THEN ErrorFrame("recommend_unavailable", FALSE)
                    ELSE Plain("none")
    /\ pc' = IF recommend_fuse_tripped THEN "send_last" ELSE "task_recommend"
    /\ turn_status' = "none"
    /\ turn_frames' = <<>>
    /\ ForgetTurn
    /\ UNCHANGED <<store_vars, mode, shutdown, send_queue, sender_state, ws_state,
                   close_code, recommend_fuse_tripped, commits, commit_log, bp_hit,
                   env_vars, svc_vars, gw, fatal, loop_writing, accepted, session_id>>

\* await wait_for(_recommend_tasks_async(session_id, max_items), RECOMMEND_TIMEOUT)
\* of the `task_recommend` branch: an exception or the time-out trips the fuse
TaskRecommend ==
    /\ pc = "task_recommend"
    /\ \E failed \in BOOLEAN :
        /\ recommend_fuse_tripped' = (recommend_fuse_tripped \/ failed)
        /\ out_frame' = IF failed THEN ErrorFrame("recommend failed", FALSE)
                        ELSE Plain("task_recommend_ok")
    /\ pc' = "send_last"
    /\ UNCHANGED <<store_vars, mode, shutdown, send_queue, sender_state, ws_state,
                   close_code, user_text, prep, llm_rest, assistant_chunks,
                   stream_failed_reason, assistant_text, end_by_token, new_step,
                   hist_vars, other_vars>>

\* the branch is over: back to the top of the loop; the locals of the branch
\* are dead from here on
Continue ==
    /\ pc = "continue"
    /\ pc' = "recv"
    /\ ForgetTurn
    /\ event' = NoEvent
    /\ out_frame' = Plain("none")
    /\ turn_status' = "none"
    /\ turn_frames' = <<>>
    /\ UNCHANGED <<store_vars, mode, shutdown, send_queue, sender_state, ws_state,
                   close_code, recommend_fuse_tripped, commits, commit_log, bp_hit,
                   env_vars, svc_vars, gw, fatal, loop_writing, accepted, session_id>>

\* the client closes the transport while the handler is not awaiting a frame;
\* nothing in the handler observes it before the next websocket.receive(), and
\* the writes of the sender fail inside _ws_send_safe, which swallows the error
ClientGone ==
    /\ ws_state = "open"
    /\ pc \notin {"connect", "bootstrap", "recv", "done", "hung"}
    /\ ws_state' = "closed"
    /\ close_code' = 1001
    /\ UNCHANGED <<store_vars, mode, pc, shutdown, send_queue, sender_state,
                   recommend_fuse_tripped, turn_vars, hist_vars, other_vars>>

\* `while not shutdown.is_set()` fails
LoopExit ==
    /\ pc = "recv" /\ shutdown
    /\ pc' = "finally"
    /\ UNCHANGED <<store_vars, mode, shutdown, send_queue, sender_state, ws_state,
                   close_code, recommend_fuse_tripped, turn_vars, hist_vars, other_vars>>

\* faulty variant: the branch leaves the loop after its last frame
next_iteration_breaks == "finally"

\* `continue` after the last frame of a branch
next_iteration == "continue"

\* await guard_send(...) followed by `continue` (or the end of the branch)
SendLast ==
    /\ pc = "send_last"
    /\ guard_send(out_frame, next_iteration, "finally")
    /\ UNCHANGED <<store_vars, mode, sender_state, recommend_fuse_tripped, turn_vars,
                   turn_status, steps_before, commits, commit_log, mark_tried, env_vars, svc_vars, gw, fatal, accepted, session_id, event>>

\* faulty variant: the loop goes on after the frame
loop_break_continues == "continue"

\* `break`: the loop is left for the finally block
loop_break == "finally"

\* await guard_send(...) followed by `break`
SendBreak ==
    /\ pc = "send_break"
    /\ guard_send(out_frame, loop_break, "finally")
    /\ UNCHANGED <<store_vars, mode, sender_state, recommend_fuse_tripped, turn_vars,
                   turn_status, steps_before, commits, commit_log, mark_tried, env_vars, svc_vars, gw, fatal, accepted, session_id, event>>

\* the `finally` of ws_emotion: shutdown.set(), the sender task is cancelled and
\* awaited, websocket.close() with the default code; the handler returns
Finally ==
    /\ pc = "finally"
    /\ ~loop_writing
    /\ shutdown' = TRUE
    /\ sender_state' = "done"
    /\ ws_state' = "closed"
    /\ close_code' = IF ws_state = "open" THEN 1000 ELSE close_code
    /\ pc' = "done"
    /\ ForgetTurn
    /\ out_frame' = Plain("none")
    /\ turn_status' = "none"
    /\ turn_frames' = <<>>
    /\ UNCHANGED <<store_vars, mode, send_queue, recommend_fuse_tripped, commits,
                   commit_log, bp_hit, other_vars>>

----------------------------------------------------------------------------
(* ws_emotion: the sender task *)

\* send_queue.get() returns an item, _ws_send_safe writes it, then the loop
\* condition `not shutdown.is_set()` is evaluated
SenderWrite ==
    /\ sender_state = "get"
    /\ send_queue # <<>>
    /\ send_queue' = Tail(send_queue)
    /\ sender_state' = IF shutdown THEN "done" ELSE "get"
    /\ UNCHANGED <<store_vars, mode, pc, shutdown, ws_state, close_code,
                   recommend_fuse_tripped, turn_vars, hist_vars, other_vars>>

\* send_queue.get() returns an item and the sender enters _ws_send_safe
SenderGet ==
    /\ sender_state = "get"
    /\ send_queue # <<>>
    /\ send_queue' = Tail(send_queue)
    /\ sender_state' = "write"
    /\ UNCHANGED <<store_vars, mode, pc, shutdown, ws_state, close_code,
                   recommend_fuse_tripped, turn_vars, hist_vars, other_vars>>

\* the write of the sender returns or fails (the exception is swallowed by
\* _ws_send_safe); then the loop condition `not shutdown.is_set()` is evaluated
SenderSent ==
    /\ sender_state = "write"
    /\ sender_state' = IF shutdown THEN "done" ELSE "get"
    /\ UNCHANGED <<store_vars, mode, pc, shutdown, send_queue, ws_state, close_code,
                   recommend_fuse_tripped, turn_vars, hist_vars, other_vars>>

\* the get times out on the empty queue, a ping is written, the loop condition
\* fails; `finally: shutdown.set()`
SenderExit ==
    /\ sender_state = "get"
    /\ send_queue = <<>>
    /\ shutdown
    /\ sender_state' = "done"
    /\ UNCHANGED <<store_vars, mode, pc, shutdown, send_queue, ws_state, close_code,
                   recommend_fuse_tripped, turn_vars, hist_vars, other_vars>>

----------------------------------------------------------------------------
(* ws_emotion: the message branch *)

\* await _with_db(_prepare_message_context, ...), then the prompts are loaded
Prep ==
    /\ pc = "prep"
    /\ \/ \* the store raises: db_failed, continue
          /\ out_frame' = ErrorFrame("db_failed", FALSE)
          /\ pc' = "send_last"
          /\ turn_status' = "rejected"
          /\ UNCHANGED prep
       \/ \E steps \in order_by_created_at(db_steps), task_prompt_ok \in BOOLEAN :
            LET p == prepare_message_context(db_steps, steps, user_text) IN
            /\ prep' = p
            /\ IF p.want_activity /\ ~task_prompt_ok
               THEN \* get_task_prompt() raises: prompt_failed, continue
                    /\ out_frame' = ErrorFrame("prompt_failed", FALSE)
                    /\ pc' = "send_last"
                    /\ turn_status' = "rejected"
               ELSE /\ out_frame' = Plain("message_start")
                    /\ pc' = "send_start"
                    /\ UNCHANGED turn_status
    /\ UNCHANGED <<store_vars, mode, shutdown, send_queue, sender_state, ws_state,
                   close_code, recommend_fuse_tripped, user_text, llm_rest,
                   assistant_chunks, stream_failed_reason, assistant_text,
                   end_by_token, new_step, steps_before, turn_frames, commits,
                   commit_log, bp_hit, mark_tried, other_vars>>

\* the positions of the message branch that await _with_db(...): a bare
\* `await asyncio.to_thread(...)`, not wrapped in wait_for
StoreWaits == {"prep", "commit", "mark_ended"}

\* the store never answers: the worker thread stays blocked and the await of
\* the handler never completes
StoreHangs ==
    /\ pc \in StoreWaits
    /\ pc' = "hung"
    /\ UNCHANGED <<store_vars, mode, shutdown, send_queue, sender_state, ws_state,
                   close_code, recommend_fuse_tripped, turn_vars, hist_vars, other_vars>>

\* await guard_send(message_start); then wait_for(_consume_stream()) starts
SendStart ==
    /\ pc = "send_start"
    /\ guard_send(out_frame, "stream", "finally")
    /\ IF pc' = "stream" THEN llm_rest' \in llm_streams ELSE UNCHANGED llm_rest
    /\ UNCHANGED <<store_vars, mode, sender_state, recommend_fuse_tripped, user_text,
                   prep, assistant_chunks, stream_failed_reason, assistant_text,
                   end_by_token, new_step, out_frame, turn_status, steps_before,
                   commits, commit_log, mark_tried, env_vars, svc_vars, gw, fatal, accepted, session_id, event>>

\* _consume_stream: the gateway yields a piece; it passes the leak guard; a
\* piece that comes out empty is skipped
StreamPiece ==
    /\ pc = "stream"
    /\ llm_rest # <<>>
    /\ llm_rest' = Tail(llm_rest)
    /\ LET safe_piece == sanitize_out(Head(llm_rest), sys_fp, mode) IN
       IF safe_piece = <<>>
       THEN UNCHANGED <<pc, assistant_chunks, out_frame>>
       ELSE /\ assistant_chunks' = Append(assistant_chunks, safe_piece)
            /\ out_frame' = Frame("message_delta", safe_piece, 0, FALSE)
            /\ pc' = "send_delta"
    /\ UNCHANGED <<store_vars, mode, shutdown, send_queue, sender_state, ws_state,
                   close_code, recommend_fuse_tripped, user_text, prep,
                   stream_failed_reason, assistant_text, end_by_token, new_step,
                   hist_vars, other_vars>>

\* await guard_send(message_delta) inside _consume_stream: SendBackpressure is
\* caught by `except Exception` of the wait_for block
SendDelta ==
    /\ pc = "send_delta"
    /\ guard_send(out_frame, "stream", "send_end")
    /\ stream_failed_reason' =
          IF pc' = "send_end" THEN "stream_failed:send_queue_backpressure"
          ELSE stream_failed_reason
    /\ UNCHANGED <<store_vars, mode, sender_state, recommend_fuse_tripped, user_text,
                   prep, llm_rest, assistant_chunks, assistant_text, end_by_token,
                   new_step, out_frame, turn_status, steps_before, commits,
                   commit_log, mark_tried, env_vars, svc_vars, gw, fatal, accepted, session_id, event>>

\* the gateway is exhausted: _consume_stream returns
StreamEnd ==
    /\ pc = "stream"
    /\ llm_rest = <<>>
    /\ pc' = "send_end"
    /\ UNCHANGED <<store_vars, mode, shutdown, send_queue, sender_state, ws_state,
                   close_code, recommend_fuse_tripped, turn_vars, hist_vars, other_vars>>

\* the gateway raises; the generator is closed
StreamRaise ==
    /\ pc = "stream"
    /\ stream_failed_reason' = "stream_failed:llm"
    /\ llm_rest' = <<>>
    /\ pc' = "send_end"
    /\ UNCHANGED <<store_vars, mode, shutdown, send_queue, sender_state, ws_state,
                   close_code, recommend_fuse_tripped, user_text, prep,
                   assistant_chunks, assistant_text, end_by_token, new_step,
                   out_frame, hist_vars, other_vars>>

\* LLM_STREAM_TIMEOUT passes while _consume_stream awaits the gateway or a put
\* on the full queue; wait_for cancels the consumer and closes the generator
StreamTimeout ==
    /\ \/ pc = "stream"
       \/ pc = "send_delta" /\ ~shutdown /\ Len(send_queue) >= WS_SEND_BUFFER
    /\ stream_failed_reason' = "stream_timeout"
    /\ llm_rest' = <<>>
    /\ pc' = "send_end"
    /\ UNCHANGED <<store_vars, mode, shutdown, send_queue, sender_state, ws_state,
                   close_code, recommend_fuse_tripped, user_text, prep,
                   assistant_chunks, assistant_text, end_by_token, new_step,
                   out_frame, hist_vars, other_vars>>

\* faulty variant: an empty text is not a reason to drop the turn
turn_dropped_on_failure_only(reason, text) == reason # ""

\* `if stream_failed_reason: ... continue` and `if not assistant_text: ... continue`
turn_dropped(reason, text) == reason # "" \/ text = <<>>

\* faulty variant: every turn is taken as a terminating one
terminating_always(current_step, by_token) == TRUE

\* current_step >= 11 or end_by_token
terminating(current_step, by_token) == current_step >= 11 \/ by_token

\* `finally: await guard_send(message_end)`, then the code up to the next await:
\* the drop decision, the sentinel, the farewell and step_after_turn
SendEnd ==
    /\ pc = "send_end"
    /\ ~loop_writing
    /\ LET text == strip(join(assistant_chunks))
           dropped == turn_dropped(stream_failed_reason, text)
           ex == extract_end_session_marker(text)
           term == terminating(prep.current_step, ex[2])
           final == IF term THEN build_fixed_farewell ELSE ex[1]
       IN
       /\ guard_send(Plain("message_end"), IF dropped THEN "send_last" ELSE "commit",
                     "finally")
       /\ IF pc' = "finally"
          THEN UNCHANGED <<assistant_text, end_by_token, new_step, out_frame, turn_status>>
          ELSE IF dropped
          THEN /\ out_frame' =
                    ErrorFrame(IF stream_failed_reason # "" THEN stream_failed_reason
                               ELSE "empty_assistant_response", TRUE)
               /\ turn_status' = "dropped"
               /\ UNCHANGED <<assistant_text, end_by_token, new_step>>
          ELSE /\ assistant_text' = final
               /\ end_by_token' = term
               /\ new_step' = step_after_turn(prep.steps, user_text, final)
               /\ UNCHANGED <<out_frame, turn_status>>
    /\ UNCHANGED <<store_vars, mode, sender_state, recommend_fuse_tripped, user_text,
                   prep, llm_rest, assistant_chunks, stream_failed_reason,
                   steps_before, commits, commit_log, mark_tried, env_vars, svc_vars, gw, fatal, accepted, session_id, event>>

\* _max_step_order: the greatest step_order persisted, 0 for an empty session
max_step_order(db) ==
    IF db = <<>> THEN 0
    ELSE CHOOSE m \in {db[i].step_order : i \in 1..Len(db)} :
            \A i \in 1..Len(db) : db[i].step_order <= m

\* await _with_db(_commit_full_turn, ...): one transaction; it is rejected by the
\* unique constraint or by a failing store, and then rolled back
Commit ==
    /\ pc = "commit"
    /\ \E tick \in {0, 1}, store_ok \in BOOLEAN :
        LET rows == commit_rows(user_text, assistant_text, prep.user_order,
                                prep.assistant_order, prep.want_activity,
                                last_created_at(db_steps) + 1, tick, tick,
                                commits + 1)
        IN IF unique_violation(db_steps, rows) \/ ~store_ok
           THEN /\ db_steps' = rollback(db_steps, rows)
                /\ out_frame' = ErrorFrame("server_error:assistant_step_commit", FALSE)
                /\ pc' = "send_last"
                /\ turn_status' = "commit_failed"
                /\ UNCHANGED <<commits, commit_log>>
           ELSE /\ db_steps' = db_steps \o rows
                /\ out_frame' = Frame("message", assistant_text, 0, FALSE)
                /\ pc' = "send_message"
                /\ turn_status' = "committed"
                /\ commits' = commits + 1
                /\ commit_log' = Append(commit_log,
                       [user_order |-> prep.user_order,
                        assistant_order |-> prep.assistant_order,
                        add_activity_marker |-> prep.want_activity,
                        greatest |-> max_step_order(db_steps),
                        transport |-> ws_state,
                        ended_at |-> ended_at,
                        current_step |-> prep.current_step,
                        new_step |-> new_step])
    /\ UNCHANGED <<ended_at, mode, shutdown, send_queue, sender_state, ws_state,
                   close_code, recommend_fuse_tripped, user_text, prep, llm_rest,
                   assistant_chunks, stream_failed_reason, assistant_text,
                   end_by_token, new_step, steps_before, turn_frames, bp_hit,
                   mark_tried, other_vars>>

\* await guard_send(message)
SendMessage ==
    /\ pc = "send_message"
    /\ guard_send(out_frame, "send_step", "finally")
    /\ UNCHANGED <<store_vars, mode, sender_state, recommend_fuse_tripped, turn_vars,
                   turn_status, steps_before, commits, commit_log, mark_tried, env_vars, svc_vars, gw, fatal, accepted, session_id, event>>

\* faulty variant: the automatic recommendation does not look at the fuse
after_termination_ignores_fuse(want_activity, fuse) ==
    IF ~want_activity THEN "continue" ELSE "recommend"

\* where the branch goes on after the termination block: `if want_activity:`
after_termination(want_activity, fuse) ==
    IF ~want_activity THEN "continue"
    ELSE IF fuse THEN "send_last" ELSE "recommend"

\* await guard_send(step)
SendStep ==
    /\ pc = "send_step"
    /\ guard_send(Frame("step", <<>>, new_step, FALSE),
                  IF terminating(prep.current_step, end_by_token) THEN "mark_ended"
                  ELSE after_termination(prep.want_activity, recommend_fuse_tripped),
                  "finally")
    /\ out_frame' = IF pc' = "send_last" THEN ErrorFrame("recommend_unavailable", FALSE)
                    ELSE out_frame
    /\ UNCHANGED <<store_vars, mode, sender_state, recommend_fuse_tripped, user_text,
                   prep, llm_rest, assistant_chunks, stream_failed_reason,
                   assistant_text, end_by_token, new_step, turn_status, steps_before,
                   commits, commit_log, mark_tried, env_vars, svc_vars, gw, fatal, accepted, session_id, event>>

\* await _with_db(_mark_session_ended, session_id): a second transaction; an
\* exception is logged and swallowed
MarkSessionEnded ==
    /\ pc = "mark_ended"
    /\ \E ok \in BOOLEAN : ended_at' = mark_session_ended(ended_at, ok)
    /\ mark_tried' = TRUE
    /\ pc' = "send_suggest"
    /\ UNCHANGED <<db_steps, mode, shutdown, send_queue, sender_state, ws_state,
                   close_code, recommend_fuse_tripped, turn_vars, turn_status,
                   steps_before, turn_frames, commits, commit_log, bp_hit, other_vars>>

\* await guard_send(suggest_close)
SendSuggestClose ==
    /\ pc = "send_suggest"
    /\ guard_send(Plain("suggest_close"),
                  after_termination(prep.want_activity, recommend_fuse_tripped),
                  "finally")
    /\ out_frame' = IF pc' = "send_last" THEN ErrorFrame("recommend_unavailable", FALSE)
                    ELSE out_frame
    /\ UNCHANGED <<store_vars, mode, sender_state, recommend_fuse_tripped, user_text,
                   prep, llm_rest, assistant_chunks, stream_failed_reason,
                   assistant_text, end_by_token, new_step, turn_status, steps_before,
                   commits, commit_log, mark_tried, env_vars, svc_vars, gw, fatal, accepted, session_id, event>>

\* await wait_for(_recommend_tasks_async(session_id, 5), RECOMMEND_TIMEOUT)
Recommend ==
    /\ pc = "recommend"
    /\ \E res \in {"failed", "items", "empty"} :
        /\ recommend_fuse_tripped' = (recommend_fuse_tripped \/ res = "failed")
        /\ out_frame' = CASE res = "failed" -> ErrorFrame("recommend_unavailable", FALSE)
                          [] res = "items"  -> Plain("task_recommend_ok")
                          [] OTHER          -> out_frame
        /\ pc' = IF res = "empty" THEN "continue" ELSE "send_last"
    /\ UNCHANGED <<store_vars, mode, shutdown, send_queue, sender_state, ws_state,
                   close_code, user_text, prep, llm_rest, assistant_chunks,
                   stream_failed_reason, assistant_text, end_by_token, new_step,
                   hist_vars, other_vars>>

----------------------------------------------------------------------------
(* services/llm_service.py: stream_noa_response, one call of the generator  *)

\* fallback backends configured in LLM_BACKUP_MODELS (one or more)
MaxBackups == 2

\* fragments one backend yields before it completes or fails
MaxFragments == 2

Responses == [family |-> "responses", ix |-> 0]
Chat(i) == [family |-> "chat", ix |-> i]

\* last_err = None
NoError == [family |-> "none", ix |-> 0]

\* the order of the attempts: the Responses path when _is_reasoning(mdl), then
\* `for bk in DEFAULT_BACKUPS`
backend_order(reasoning, backups) ==
    (IF reasoning THEN <<Responses>> ELSE <<>>) \o [i \in 1..backups |-> Chat(i)]

\* faulty variant: only the first failure of a chat backend is kept
last_err_first_only(last_err, backend) ==
    IF backend.family = "responses" \/ last_err # NoError THEN last_err ELSE backend

\* the two `except` clauses of the Responses path only log; the `except` of the
\* chat loop sets last_err = e
last_err_after(last_err, backend) ==
    IF backend.family = "responses" THEN last_err ELSE backend

\* the generator before its first next()
GwIdle ==
    [state |-> "idle", reasoning |-> FALSE, backups |-> 1, pos |-> 0,
     retried |-> FALSE, any_delta |-> FALSE, fragments |-> 0, attempts |-> <<>>,
     yielded |-> <<>>, failed |-> <<>>, last_err |-> NoError, carried |-> NoError]

\* the attempt at position pos of the order begins
gw_attempt(g, pos) ==
    [g EXCEPT !.state = "open", !.pos = pos, !.retried = FALSE, !.any_delta = FALSE,
              !.fragments = 0,
              !.attempts = Append(g.attempts,
                                  backend_order(g.reasoning, g.backups)[pos])]

\* the backend of the current attempt has raised: the next one is attempted, or
\* after the last one RuntimeError(f"...; last={last_err}") is raised
gw_after_failure(g) ==
    LET order == backend_order(g.reasoning, g.backups)
        err == last_err_after(g.last_err, order[g.pos])
        h == [g EXCEPT !.last_err = err, !.failed = Append(g.failed, order[g.pos])]
    IN IF g.pos < Len(order) THEN gw_attempt(h, g.pos + 1)
       ELSE [h EXCEPT !.state = "raised", !.carried = err]

pipeline_vars == <<store_vars, conn_vars, turn_vars, hist_vars, env_vars, svc_vars, fatal,
                   loop_writing, accepted, session_id, event>>

\* the first next() of the generator
GwStart ==
    /\ gw.state = "idle"
    /\ gw' = gw_attempt(gw, 1)
    /\ UNCHANGED pipeline_vars

\* client.responses.stream(**params) is entered, or
\* client.chat.completions.create(**chat_kwargs) returns
GwOpen ==
    /\ gw.state = "open"
    /\ gw' = [gw EXCEPT !.state = "stream"]
    /\ UNCHANGED pipeline_vars

\* create raises BadRequestError naming max_completion_tokens: the same backend
\* is called once more with max_tokens
GwParamRetry ==
    /\ gw.state = "open"
    /\ gw.attempts[Len(gw.attempts)].family = "chat"
    /\ ~gw.retried
    /\ gw' = [gw EXCEPT !.retried = TRUE]
    /\ UNCHANGED pipeline_vars

\* a delta event or a chunk with content: `yield piece` / `yield delta`
GwYield ==
    /\ gw.state = "stream"
    /\ gw.fragments < MaxFragments
    /\ gw' = [gw EXCEPT !.fragments = @ + 1, !.any_delta = TRUE,
                        !.yielded = Append(@, gw.attempts[Len(gw.attempts)])]
    /\ UNCHANGED pipeline_vars

\* the stream of the backend ends: `return`; the Responses path first yields
\* final_text when there is one and no delta was seen
GwComplete ==
    /\ gw.state = "stream"
    /\ \E final_text \in BOOLEAN :
        gw' = [gw EXCEPT
                 !.state = "returned",
                 !.yielded = IF gw.attempts[Len(gw.attempts)].family = "responses"
                                /\ final_text /\ ~gw.any_delta
                             THEN Append(@, gw.attempts[Len(gw.attempts)])
                             ELSE @]
    /\ UNCHANGED pipeline_vars

\* the backend raises, at the call or while it is iterated (an error event, a
\* transport error, a failing get_final_response)
GwFail ==
    /\ gw.state \in {"open", "stream"}
    /\ gw' = gw_after_failure(gw)
    /\ UNCHANGED pipeline_vars

----------------------------------------------------------------------------
(* services/task_recommend.py and _recommend_tasks_async *)

\* the upper limit of `n = max(1, min(5, n))`
REC_MAX_ITEMS == 5

\* an entry of the array the model answered with: an object with the value of
\* its "title" key (<<>>: the key is missing, null or ""), or a value of
\* another JSON type
TaskEntry(title) == [kind |-> "object", title |-> title]
NotAnObject == [kind |-> "string", title |-> <<>>]

Walk     == TaskEntry(<<"walk">>)
Rest     == TaskEntry(<<WS, "rest">>)
Blank    == TaskEntry(<<WS>>)
Untitled == TaskEntry(<<>>)

\* resp.choices[0].message.content: a JSON array, another JSON value or text
\* that is no JSON, inside a ``` fence or not
Response(fence, body, array) == [fence |-> fence, body |-> body, array |-> array]

RecArrays ==
    { <<>>, <<Walk>>, <<Blank>>, <<NotAnObject>>, <<Walk, Rest>>, <<Walk, Blank>>,
      <<Untitled, Walk>>, <<Walk, NotAnObject>>, <<NotAnObject, Walk>>,
      <<Walk, Untitled, Rest>>, <<Walk, Rest, Walk, Rest, Walk, Rest>> }

RecResponses ==
    {Response(fence, "array", a) : fence \in BOOLEAN, a \in RecArrays}
    \cup {Response(FALSE, "object", <<>>), Response(FALSE, "text", <<>>)}

\* _strip_codeblock
strip_codeblock(raw) == [raw EXCEPT !.fence = FALSE]

\* json.loads(candidate): the type of the value, "error" when it raises
json_loads(raw) == IF raw.fence \/ raw.body = "text" THEN "error" ELSE raw.body

\* the loop over (raw, _strip_codeblock(raw)): the value `parsed` ends with is a list
parsed_is_list(raw) ==
    json_loads(raw) = "array" \/ json_loads(strip_codeblock(raw)) = "array"

clamp_n(n) ==
    LET low == IF n < REC_MAX_ITEMS THEN n ELSE REC_MAX_ITEMS
    IN IF low < 1 THEN 1 ELSE low

\* parsed[:n]
first_n(array, n) == SubSeq(array, 1, IF n < Len(array) THEN n ELSE Len(array))

RECURSIVE tasks_of(_)
\* the loop over parsed[:n]: a Task for each entry with a title
tasks_of(items) ==
    IF items = <<>> THEN <<>>
    ELSE LET title == strip(Head(items).title) IN
         (IF title = <<>> THEN <<>> ELSE <<[title |-> title]>>) \o tasks_of(Tail(items))

\* recommend_tasks_from_session_core from the answer of the model on: `raised`
\* when the call ends in an exception (session_scope rolls the session back),
\* otherwise tasks_out, committed and returned. item.get raises AttributeError
\* on an entry that is no object.
recommend_tasks_from_session_core(raw, n, llm_ok) ==
    IF ~llm_ok \/ ~parsed_is_list(raw) THEN [raised |-> TRUE, tasks_out |-> <<>>]
    ELSE LET items == first_n(raw.array, clamp_n(n))
             tasks_out == tasks_of(items)
         IN IF \E i \in 1..Len(items) : items[i].kind # "object"
            THEN [raised |-> TRUE, tasks_out |-> <<>>]
            ELSE IF tasks_out = <<>> THEN [raised |-> TRUE, tasks_out |-> <<>>]
            ELSE [raised |-> FALSE, tasks_out |-> tasks_out]

\* no call of _recommend_tasks_async was made
RecIdle ==
    [worker |-> "idle", n |-> 0, owned |-> FALSE, raw |-> Response(FALSE, "text", <<>>),
     out |-> <<>>, waiter |-> "none", reported |-> <<>>]

\* max_items of the task_recommend frames the client sends (0: none given)
MaxItemsSent == {-1, 0, 2, 7}

\* asyncio.wait_for(_recommend_tasks_async(session_id, payload.max_items or 5)):
\* the worker thread is started with n = max(1, max_items)
RecommendCall ==
    /\ pc = "task_recommend"
    /\ rec.worker = "idle"
    /\ \E max_items \in MaxItemsSent, owned \in BOOLEAN :
        LET given == IF max_items = 0 THEN REC_MAX_ITEMS ELSE max_items IN
        rec' = [RecIdle EXCEPT !.worker = "session", !.owned = owned,
                               !.n = IF given < 1 THEN 1 ELSE given,
                               !.waiter = "waiting"]
    /\ pc' = "recommend_wait"
    /\ UNCHANGED <<store_vars, mode, shutdown, send_queue, sender_state, ws_state,
                   close_code, recommend_fuse_tripped, turn_vars, hist_vars, env_vars,
                   tasks, api_vars, gw, fatal, loop_writing, accepted, session_id, event>>

\* _work: the session is read; without an owner the result is []
WorkerSession ==
    /\ rec.worker = "session"
    /\ rec' = IF rec.owned THEN [rec EXCEPT !.worker = "llm"]
              ELSE [rec EXCEPT !.worker = "returned"]
    /\ UNCHANGED <<store_vars, conn_vars, turn_vars, hist_vars, env_vars, tasks,
                   api_vars, gw, fatal, loop_writing, accepted, session_id, event>>

\* _work: recommend_tasks_from_session_core runs in the worker thread, whether
\* the caller still waits or not
WorkerCore ==
    /\ rec.worker = "llm"
    /\ \E raw \in RecResponses, llm_ok \in BOOLEAN :
        LET r == recommend_tasks_from_session_core(raw, rec.n, llm_ok) IN
        /\ rec' = [rec EXCEPT !.worker = IF r.raised THEN "raised" ELSE "returned",
                              !.raw = IF llm_ok THEN raw ELSE @,
                              !.out = IF r.raised THEN <<>> ELSE r.tasks_out]
        /\ tasks' = tasks \o r.tasks_out
    /\ UNCHANGED <<store_vars, conn_vars, turn_vars, hist_vars, env_vars, api_vars,
                   gw, fatal, loop_writing, accepted, session_id, event>>

\* wait_for gives up after RECOMMEND_TIMEOUT: the worker thread is not stopped
RecommendTimeout ==
    /\ pc = "recommend_wait"
    /\ rec.worker \in {"session", "llm"}
    /\ rec' = [rec EXCEPT !.waiter = "timeout"]
    /\ recommend_fuse_tripped' = TRUE
    /\ out_frame' = ErrorFrame("recommend failed", FALSE)
    /\ pc' = "send_last"
    /\ UNCHANGED <<store_vars, mode, shutdown, send_queue, sender_state, ws_state,
                   close_code, user_text, prep, llm_rest, assistant_chunks,
                   stream_failed_reason, assistant_text, end_by_token, new_step,
                   hist_vars, env_vars, tasks, api_vars, gw, fatal, loop_writing,
                   accepted, session_id, event>>

\* the await returns the items or raises what the worker raised
RecommendReturn ==
    /\ pc = "recommend_wait"
    /\ rec.worker \in {"returned", "raised"}
    /\ rec' = [rec EXCEPT !.waiter = IF rec.worker = "raised" THEN "failed" ELSE "ok",
                          !.reported = rec.out]
    /\ recommend_fuse_tripped' = (recommend_fuse_tripped \/ rec.worker = "raised")
    /\ out_frame' = IF rec.worker = "raised" THEN ErrorFrame("recommend failed", FALSE)
                    ELSE Plain("task_recommend_ok")
    /\ pc' = "send_last"
    /\ UNCHANGED <<store_vars, mode, shutdown, send_queue, sender_state, ws_state,
                   close_code, user_text, prep, llm_rest, assistant_chunks,
                   stream_failed_reason, assistant_text, end_by_token, new_step,
                   hist_vars, env_vars, tasks, api_vars, gw, fatal, loop_writing,
                   accepted, session_id, event>>

----------------------------------------------------------------------------
(* routers/health_llm.py: GET /health/llm/stream *)

\* what the function bound to the name stream_noa_response accepts and is: the
\* generator of services/llm_service.py, and stand-ins that take any keyword
Gateway(params, required, is_async) ==
    [params |-> params, required |-> required, is_async |-> is_async]

ANY_KEYWORD == {"**kwargs"}

LlmServiceGateway ==
    Gateway({"system_prompt", "task_prompt", "conversation", "temperature", "max_tokens",
             "model"},
            {"system_prompt", "task_prompt", "conversation"}, FALSE)

Gateways ==
    {LlmServiceGateway, Gateway(ANY_KEYWORD, {}, FALSE), Gateway(ANY_KEYWORD, {}, TRUE)}

\* the keywords of the call at l.46-51
HEALTH_STREAM_KEYWORDS == {"user_input", "session", "recent_steps", "system_prompt"}

\* the call binds: no unexpected keyword, no required parameter left out
binds(gateway, keywords) ==
    /\ gateway.params = ANY_KEYWORD \/ keywords \subseteq gateway.params
    /\ gateway.required \subseteq keywords

Pong == <<"pong">>

\* what the gateway yields and how it ends once it is iterated
Script(pieces, raises) == [pieces |-> pieces, raises |-> raises]

HealthScripts ==
    {Script(pieces, raises) :
        pieces \in {<<>>, <<Pong>>, <<Pong, <<"!">> >>, << <<WS>> >>, << <<>>, Pong >>,
                    <<Fine, <<WS>> >>},
        raises \in {"none", "blocked_by_content_filter", "empty_completion_from_llm",
                    "RuntimeError", "Exception"}}

HttpError(status, detail) ==
    [status |-> status, ok |-> FALSE, detail |-> detail, tokens |-> 0, text |-> <<>>]

HealthIdle ==
    [state |-> "idle", q |-> <<>>, gateway |-> LlmServiceGateway,
     script |-> Script(<<>>, "none"), rest |-> <<>>, tokens |-> <<>>,
     response |-> HttpError(0, "")]

\* the except clauses of l.54-62 for what the loop raised
health_stream_error(raised) ==
    CASE raised = "blocked_by_content_filter" -> HttpError(503, "blocked_by_content_filter")
      [] raised = "empty_completion_from_llm" -> HttpError(503, "llm_empty_response")
      [] raised = "RuntimeError"              -> HttpError(500, "Internal Server Error")
      [] OTHER                                -> HttpError(503, "llm_stream_error")

\* l.64-71: the answer once the loop has ended
health_stream_result(q, tokens) ==
    LET text == strip(join(tokens)) IN
    IF text = <<>> THEN HttpError(503, "llm_stream_empty")
    ELSE IF q = <<>> /\ ~contains(text, "pong")
         THEN [status |-> 200, ok |-> FALSE, detail |-> "unexpected_content",
               tokens |-> Len(tokens), text |-> text]
    ELSE [status |-> 200, ok |-> TRUE, detail |-> "", tokens |-> Len(tokens),
          text |-> text]

\* stream_noa_response(user_input=..., ...) and the start of `async for`: a
\* TypeError when the call does not bind or the result is no async iterator
health_call(gateway) ==
    IF binds(gateway, HEALTH_STREAM_KEYWORDS) /\ gateway.is_async THEN "streaming"
    ELSE "TypeError"

\* the request reaches the try block
HealthCall ==
    /\ health.state = "idle"
    /\ health.response.status = 0
    /\ LET started == health_call(health.gateway) IN
       health' = IF started = "streaming"
                 THEN [health EXCEPT !.state = "streaming", !.rest = health.script.pieces]
                 ELSE [health EXCEPT !.state = "done",
                                     !.response = health_stream_error(started)]
    /\ UNCHANGED <<store_vars, conn_vars, turn_vars, hist_vars, env_vars, tasks, rec,
                   ext_vars, gw, fatal, loop_writing, accepted, session_id, event>>

\* one round of the loop: `if piece: tokens.append(piece)`
HealthPiece ==
    /\ health.state = "streaming"
    /\ health.rest # <<>>
    /\ health' = [health EXCEPT !.rest = Tail(@),
                     !.tokens = IF Head(health.rest) = <<>> THEN @
                                ELSE Append(@, Head(health.rest))]
    /\ UNCHANGED <<store_vars, conn_vars, turn_vars, hist_vars, env_vars, tasks, rec,
                   ext_vars, gw, fatal, loop_writing, accepted, session_id, event>>

\* the gateway raises after its pieces
HealthRaise ==
    /\ health.state = "streaming"
    /\ health.rest = <<>>
    /\ health.script.raises # "none"
    /\ health' = [health EXCEPT !.state = "done",
                     !.response = health_stream_error(health.script.raises)]
    /\ UNCHANGED <<store_vars, conn_vars, turn_vars, hist_vars, env_vars, tasks, rec,
                   ext_vars, gw, fatal, loop_writing, accepted, session_id, event>>

\* the gateway is exhausted
HealthRespond ==
    /\ health.state = "streaming"
    /\ health.rest = <<>>
    /\ health.script.raises = "none"
    /\ health' = [health EXCEPT !.state = "done",
                     !.response = health_stream_result(health.q, health.tokens)]
    /\ UNCHANGED <<store_vars, conn_vars, turn_vars, hist_vars, env_vars, tasks, rec,
                   ext_vars, gw, fatal, loop_writing, accepted, session_id, event>>

----------------------------------------------------------------------------
(* POST /auth/refresh: rotation of refresh tokens (SpecRefresh) *)

\* the requests, and the server process each of them is handled by
RefreshRequests == {"R1", "R2", "R3"}
worker_of(r) == IF r = "R2" THEN "W2" ELSE "W1"

\* new_refresh_jti(): a fresh uuid4 for every rotation
new_refresh_jti(r) == IF r = "R1" THEN "N1" ELSE IF r = "R2" THEN "N2" ELSE "N3"

\* tokens a client can hold: two of user u1, one of user u2, and one that
\* verifies but has no row
PresentedTokens == {"J0", "K0", "U9", "gone"}

\* a row of the refreshtoken table
RefreshToken(user_id, revoked, replaced_by) ==
    [user_id |-> user_id, revoked |-> revoked, replaced_by |-> replaced_by]
NoRow == RefreshToken("", FALSE, "")

IssuedRows ==
    [j \in {"J0", "K0", "U9", "gone", "N1", "N2", "N3"} |->
        IF j \in {"J0", "K0"} THEN RefreshToken("u1", FALSE, "")
        ELSE IF j = "U9" THEN RefreshToken("u2", FALSE, "")
        ELSE NoRow]

NoRequest ==
    [state |-> "idle", token |-> "", status |-> 0, detail |-> "",
     was_rotated |-> FALSE, was_expired |-> FALSE, left_unrevoked |-> {}]

RefreshIdle ==
    [rows |-> IssuedRows, expired |-> {}, reqs |-> [r \in RefreshRequests |-> NoRequest]]

\* rt_row.revoked_at is not None or rt_row.replaced_by is not None
is_reused(row) == row.revoked \/ row.replaced_by # ""

\* the user's tokens with revoked_at None
unrevoked_of(rows, user_id) ==
    {j \in DOMAIN rows : rows[j].user_id = user_id /\ ~rows[j].revoked}

\* the reuse branch: every row of the user with revoked_at None gets revoked
revoke_all(rows, user_id) ==
    [j \in DOMAIN rows |-> IF rows[j].user_id = user_id
                           THEN [rows[j] EXCEPT !.revoked = TRUE] ELSE rows[j]]

\* the rotation: the presented row is revoked and linked, the new row added
rotate(rows, jti, new_jti) ==
    [rows EXCEPT ![jti] = [@ EXCEPT !.revoked = TRUE, !.replaced_by = new_jti],
                 ![new_jti] = RefreshToken(rows[jti].user_id, FALSE, "")]

\* the outcome of the checks before the rotation, for the token t
\* (verify_refresh_token, db.get, reuse detection)
refresh_check(rows, expired, t) ==
    IF t \in expired THEN "Invalid refresh token"
    ELSE IF rows[t] = NoRow THEN "Refresh token not recognized"
    ELSE IF is_reused(rows[t]) THEN "Refresh token reused"
    ELSE "rotate"

\* a request runs from its start to the row it loaded; the coroutine has no
\* await between db.get and db.commit, so a request of the same event loop
\* that has loaded its row is finished before the next one starts
RefreshLoad(r, t) ==
    /\ refresh.reqs[r].state = "idle"
    /\ \A q \in RefreshRequests :
           worker_of(q) = worker_of(r) => refresh.reqs[q].state # "loaded"
    /\ LET rows == refresh.rows
           outcome == refresh_check(rows, refresh.expired, t)
           owner == rows[t].user_id
           rows2 == IF outcome = "Refresh token reused" THEN revoke_all(rows, owner)
                    ELSE rows
           req == [NoRequest EXCEPT !.token = t,
                       !.was_rotated = is_reused(rows[t]),
                       !.was_expired = t \in refresh.expired] IN
       refresh' = [refresh EXCEPT
           !.rows = rows2,
           !.reqs[r] = IF outcome = "rotate" THEN [req EXCEPT !.state = "loaded"]
                       ELSE [req EXCEPT !.state = "done", !.status = 401,
                                        !.detail = outcome,
                                        !.left_unrevoked = unrevoked_of(rows2, owner)]]
    /\ UNCHANGED <<store_vars, conn_vars, turn_vars, hist_vars, env_vars, tasks, rec,
                   health, overlap, risk, gw, fatal, loop_writing, accepted, session_id, event>>

\* `rt_row.revoked_at = ...; rt_row.replaced_by = new_jti; db.add(...); db.commit()`
RefreshRotate(r) ==
    /\ refresh.reqs[r].state = "loaded"
    /\ LET t == refresh.reqs[r].token
           rows2 == rotate(refresh.rows, t, new_refresh_jti(r)) IN
       refresh' = [refresh EXCEPT
           !.rows = rows2,
           !.reqs[r] = [@ EXCEPT !.state = "done", !.status = 200,
                           !.left_unrevoked = unrevoked_of(rows2, rows2[t].user_id)]]
    /\ UNCHANGED <<store_vars, conn_vars, turn_vars, hist_vars, env_vars, tasks, rec,
                   health, overlap, risk, gw, fatal, loop_writing, accepted, session_id, event>>

\* time passes: the `exp` of an issued token is reached
RefreshExpire(t) ==
    /\ t \notin refresh.expired
    /\ refresh' = [refresh EXCEPT !.expired = @ \cup {t}]
    /\ UNCHANGED <<store_vars, conn_vars, turn_vars, hist_vars, env_vars, tasks, rec,
                   health, overlap, risk, gw, fatal, loop_writing, accepted, session_id, event>>

----------------------------------------------------------------------------
(* Turn executions that overlap on one session (SpecOverlap) *)

\* the executions: the pipeline of the connection and two calls of
\* POST /steps/generate, each with the number its rows are tagged with
Executions == {"ws", "rest1", "rest2"}
turn_of(e) == IF e = "ws" THEN 11 ELSE IF e = "rest1" THEN 12 ELSE 13

NoExecution ==
    [state |-> "idle", text |-> <<>>, want_activity |-> FALSE, user_order |-> 0,
     outcome |-> "none", table_before |-> <<>>]

OverlapIdle == [e \in Executions |-> NoExecution]

\* the execution reads the history and decides on the activity marker; the
\* pipeline also reserves its positions here (_prepare_message_context), the
\* REST handler only after the model has answered
OverlapPrepare(e, text) ==
    /\ overlap[e].state = "idle"
    /\ overlap' = [overlap EXCEPT ![e] =
           [NoExecution EXCEPT
               !.state = "prepared",
               !.text = text,
               !.want_activity = is_activity_turn(text, db_steps, db_steps),
               !.user_order = IF e = "ws"
                              THEN (IF db_steps = <<>> THEN 0
                                    ELSE db_steps[Len(db_steps)].step_order) + 1
                              ELSE 0]]
    /\ UNCHANGED <<store_vars, conn_vars, turn_vars, hist_vars, env_vars, tasks, rec,
                   health, refresh, risk, gw, fatal, loop_writing, accepted,
                   session_id, event>>

\* generate_emotion_step after generate_noa_response: `_max_step_order(...) + 1`
OverlapReserve(e) ==
    /\ e # "ws"
    /\ overlap[e].state = "prepared"
    /\ overlap' = [overlap EXCEPT ![e].state = "reserved",
                                  ![e].user_order = max_step_order(db_steps) + 1]
    /\ UNCHANGED <<store_vars, conn_vars, turn_vars, hist_vars, env_vars, tasks, rec,
                   health, refresh, risk, gw, fatal, loop_writing, accepted,
                   session_id, event>>

\* db.add(...) of the two or three rows and db.commit(): one transaction, rejected
\* as a whole by uq_emotionstep_session_order
OverlapCommit(e) ==
    /\ overlap[e].state = (IF e = "ws" THEN "prepared" ELSE "reserved")
    /\ LET x == overlap[e]
           rows == commit_rows(x.text, Fine, x.user_order, x.user_order + 1,
                               x.want_activity, last_created_at(db_steps) + 1, 1, 1,
                               turn_of(e))
           rejected == unique_violation(db_steps, rows) IN
       /\ db_steps' = IF rejected THEN rollback(db_steps, rows) ELSE db_steps \o rows
       /\ overlap' = [overlap EXCEPT ![e].state = "done",
                         ![e].outcome = IF rejected THEN "rejected" ELSE "committed",
                         ![e].table_before = db_steps]
    /\ UNCHANGED <<ended_at, conn_vars, turn_vars, hist_vars, env_vars, tasks, rec,
                   health, refresh, risk, gw, fatal, loop_writing, accepted,
                   session_id, event>>

----------------------------------------------------------------------------
(* app/analyze/services/risk.py.  A text is the sequence of its characters; *)
(* a Hangul syllable is written as its romanisation.                        *)

_LOW == { <<"him", "deul">>, <<"seul", "peum">>, <<"u", "ul">>, <<"bul", "an">>,
          <<"jja", "jeung">> }
_MEDIUM == { <<"juk", "go">>, <<"ja", "hae">>, <<"hae", "chi">>, <<"jeol", "mang">>,
             <<"po", "gi">> }
_HIGH == { <<"na", "neun", WS, "juk">>, <<"got", WS, "kkeut", "nael">>,
           <<"bang", "beob", "eul", WS, "chat", "at">>, <<"yu", "seo">>,
           <<"ttwi", "eo", "nae">> }

\* `k in t` for strings
is_substring(k, t) ==
    \E i \in 0..(Len(t) - Len(k)) : SubSeq(t, i + 1, i + Len(k)) = k

\* any(k in t for k in keywords)
any_in(keywords, t) == \E k \in keywords : is_substring(k, t)

score(text) ==
    LET t == remove_token(text, WS) IN
    IF any_in(_HIGH, t) THEN "HIGH"
    ELSE IF any_in(_MEDIUM, t) THEN "MEDIUM"
    ELSE IF any_in(_LOW, t) THEN "LOW"
    ELSE "NONE"

\* " ".join(str(payload.get(k) or "") for k in (summary, emotion, thoughts,
\* physical_reactions, behaviors))
bag_of(payload) ==
    payload.summary \o <<WS>> \o payload.emotion \o <<WS>> \o payload.thoughts
    \o <<WS>> \o payload.physical_reactions \o <<WS>> \o payload.behaviors

\* risk_from_payload: (flag, level or None)
risk_from_payload(payload) ==
    LET level == score(bag_of(payload)) IN
    <<level \in {"LOW", "MEDIUM", "HIGH"}, IF level # "NONE" THEN level ELSE "None">>

\* the field values of the cards: empty, harmless, one keyword of each tier,
\* keywords of two tiers, a keyword with blanks between its characters, and
\* the two halves of a keyword
CardTexts ==
    { <<>>,
      <<"gwaen", "chan", "a">>,
      <<"u", "ul", "hae">>,
      <<"po", "gi">>,
      <<"yu", "seo">>,
      <<"got", WS, "kkeut", "nael">>,
      <<"na", "neun", WS, "juk", "go">>,
      <<"yu", "seo", WS, "u", "ul">>,
      <<"yu", WS, "seo">>,
      <<"yu">>,
      <<"seo">> }

Payload(summary, emotion, thoughts) ==
    [summary |-> summary, emotion |-> emotion, thoughts |-> thoughts,
     physical_reactions |-> <<>>, behaviors |-> <<>>]

RiskIdle ==
    [state |-> "idle", payload |-> Payload(<<>>, <<>>, <<>>), text |-> <<>>,
     level |-> "", risk_flag |-> FALSE, risk_level |-> ""]

\* score is applied to the text of the payload
RiskScore ==
    /\ risk.state = "idle"
    /\ risk' = [risk EXCEPT !.state = "scored",
                            !.text = bag_of(risk.payload),
                            !.level = score(bag_of(risk.payload))]
    /\ UNCHANGED <<store_vars, conn_vars, turn_vars, hist_vars, env_vars, tasks, rec,
                   health, refresh, overlap, gw, fatal, loop_writing, accepted,
                   session_id, event>>

\* create_card: `risk_flag, risk_level = risk_service.risk_from_payload(...)`
RiskCard ==
    /\ risk.state = "scored"
    /\ LET r == risk_from_payload(risk.payload) IN
       risk' = [risk EXCEPT !.state = "card", !.risk_flag = r[1], !.risk_level = r[2]]
    /\ UNCHANGED <<store_vars, conn_vars, turn_vars, hist_vars, env_vars, tasks, rec,
                   health, refresh, overlap, gw, fatal, loop_writing, accepted,
                   session_id, event>>

----------------------------------------------------------------------------
(* The connection after the session was opened *)

\* the state every connection starts from
InitLocals ==
    /\ ended_at = 0
    /\ shutdown = FALSE
    /\ send_queue = <<>>
    /\ ws_state = "open"
    /\ close_code = 0
    /\ recommend_fuse_tripped = FALSE
    /\ user_text = <<>>
    /\ prep = NoPrep
    /\ llm_rest = <<>>
    /\ assistant_chunks = <<>>
    /\ stream_failed_reason = ""
    /\ assistant_text = <<>>
    /\ end_by_token = FALSE
    /\ new_step = 0
    /\ out_frame = Plain("none")
    /\ turn_status = "none"
    /\ steps_before = db_steps
    /\ turn_frames = <<>>
    /\ commits = 0
    /\ commit_log = <<>>
    /\ bp_hit = FALSE
    /\ mark_tried = FALSE
    /\ fatal = "none"
    /\ loop_writing = FALSE
    /\ event = NoEvent

\* no request to the services next to the handler
InitIdleServices ==
    /\ tasks = <<>>
    /\ rec = RecIdle
    /\ health = HealthIdle
    /\ refresh = RefreshIdle
    /\ overlap = OverlapIdle
    /\ risk = RiskIdle

\* the connection right after the session was opened, or later between two turns
InitConnection ==
    /\ InitLocals
    /\ InitIdleServices
    /\ pc = "recv"
    /\ sender_state = "get"
    /\ accepted = TRUE
    /\ session_id = "created"

\* the connection when the handshake arrives
InitHandshake ==
    /\ InitLocals
    /\ InitIdleServices
    /\ pc = "connect"
    /\ sender_state = "not_started"
    /\ accepted = FALSE
    /\ session_id = "none"

\* the turn pipeline: a client that sends messages and may disconnect
Init ==
    /\ db_steps \in InitHistories
    /\ mode \in {"mask", "drop"}
    /\ client_texts = UserTexts \cup {Oversized}
    /\ llm_streams = LLMStreams
    /\ raw_token = "valid"
    /\ allow_web_test = FALSE
    /\ raw_frames = {}
    /\ gw = GwIdle
    /\ InitConnection

TurnStep ==
    \/ Prep
    \/ SendStart
    \/ StreamPiece
    \/ SendDelta
    \/ StreamEnd
    \/ StreamRaise
    \/ StreamTimeout
    \/ SendEnd
    \/ Commit
    \/ SendMessage
    \/ SendStep
    \/ MarkSessionEnded
    \/ SendSuggestClose
    \/ Recommend

\* the steps of the handler task on messages and on a disconnect
LoopStep ==
    \/ RecvMessage
    \/ RecvDisconnect
    \/ TurnStep
    \/ SendLast
    \/ DirectWriteEnds
    \/ Continue
    \/ LoopExit
    \/ Finally

\* the sender takes a frame and writes it in one step
Next ==
    \/ LoopStep
    \/ SenderWrite

Spec == Init /\ [][Next]_vars

\* the connection supervisor: a client that sends every kind of frame; the
\* turns are those of two texts and of three replies
InitConn ==
    /\ db_steps \in {History(1), HistoryWithMarker}
    /\ mode = "mask"
    /\ client_texts = {Tired, AtCeiling, Oversized}
    /\ llm_streams = { <<>>, << Fine >>, << Fine, <<WS, END_SESSION_TOKEN>> >> }
    /\ raw_token = "valid"
    /\ allow_web_test = FALSE
    /\ raw_frames = {BinaryFrame, BrokenJson, TypedFrame("bogus"), TypedFrame(MSG_MESSAGE),
                     PingWord, TypedFrame(MSG_CLOSE)}
    /\ gw = GwIdle
    /\ InitConnection

NextConn ==
    \/ LoopStep
    \/ RecvBadPayload
    \/ RecvUnknownType
    \/ RecvPing
    \/ RecvIdleTimeout
    \/ RecvClose
    \/ RecvInvalidPayload
    \/ SendInvalid
    \/ CloseInvalid
    \/ SendBreak
    \/ ClientGone
    \/ StoreHangs
    \/ SenderGet
    \/ SenderSent
    \/ SenderExit

SpecConn == InitConn /\ [][NextConn]_vars

\* the connection from the handshake on, for every token and both settings of
\* the anonymous test mode; the turns are those of one text and of one reply
InitAuth ==
    /\ db_steps = History(1)
    /\ mode = "mask"
    /\ client_texts = {Tired}
    /\ llm_streams = { << Fine, <<WS, END_SESSION_TOKEN>> >> }
    /\ raw_token \in {"none", "valid", "invalid"}
    /\ allow_web_test \in BOOLEAN
    /\ raw_frames = {BinaryFrame, BrokenJson, TypedFrame("bogus"), TypedFrame(MSG_MESSAGE),
                     PingWord, UntypedJson, TypedFrame(MSG_CLOSE),
                     TypedFrame(MSG_TASK_RECOMMEND)}
    /\ gw = GwIdle
    /\ InitHandshake

NextAuth ==
    \/ Authenticate
    \/ Bootstrap
    \/ NextConn
    \/ RecvTaskRecommend
    \/ TaskRecommend

SpecAuth == InitAuth /\ [][NextAuth]_vars

\* the steps the handler takes without waiting for the client
HandlerStep ==
    \/ Authenticate
    \/ Bootstrap
    \/ TurnStep
    \/ TaskRecommend
    \/ SendLast
    \/ SendBreak
    \/ SendInvalid
    \/ CloseInvalid
    \/ DirectWriteEnds
    \/ Continue
    \/ LoopExit
    \/ Finally

\* one call of the gateway, for each configuration of the model name and of
\* the fallback list
InitGateway ==
    /\ db_steps = <<>>
    /\ mode = "mask"
    /\ client_texts = {}
    /\ llm_streams = {}
    /\ raw_token = "valid"
    /\ allow_web_test = FALSE
    /\ raw_frames = {}
    /\ InitConnection
    /\ \E reasoning \in BOOLEAN, backups \in 1..MaxBackups :
        gw = [GwIdle EXCEPT !.reasoning = reasoning, !.backups = backups]

NextGateway ==
    \/ GwStart
    \/ GwOpen
    \/ GwParamRetry
    \/ GwYield
    \/ GwComplete
    \/ GwFail

SpecGateway == InitGateway /\ [][NextGateway]_vars

----------------------------------------------------------------------------
(* Properties of the turn pipeline (Spec) *)

\* the rows the committed turn t wrote, in the order they were added
TurnRows(t) == SelectSeq(db_steps, LAMBDA r : r.turn = t)

StepTypes(rows) == [i \in DOMAIN rows |-> rows[i].step_type]
StepOrders(rows) == [i \in DOMAIN rows |-> rows[i].step_order]

\* frames of one type that the send queue accepted in the current turn
TurnFrames(type) == SelectSeq(turn_frames, LAMBDA f : f.type = type)

\* the stream of the current turn is over, and it raised, timed out or left an
\* empty text
StreamFailedOrEmpty ==
    /\ turn_status \in {"running", "dropped", "committed", "commit_failed"}
    /\ pc \notin {"prep", "send_start", "stream", "send_delta"}
    /\ stream_failed_reason # "" \/ strip(join(assistant_chunks)) = <<>>

\* the message branch of the current turn has been left
TurnOver == pc \in {"continue", "finally"}

DroppedFrameEnqueued ==
    \E i \in DOMAIN turn_frames :
        turn_frames[i].type = "error" /\ turn_frames[i].turn_dropped

\* C1 as stated: when the stream raised, timed out or left an empty text, the
\* step records after the turn are those before it and an error frame flagged
\* turn_dropped has been enqueued.
C1_DroppedFrameAlways ==
    StreamFailedOrEmpty /\ TurnOver =>
        db_steps = steps_before /\ DroppedFrameEnqueued

\* C1, amended: when the stream raised, timed out or left an empty text, the
\* turn is dropped and the step records stay those before the turn; the error
\* frame flagged turn_dropped is the last frame enqueued for the turn unless the
\* connection has entered shutdown on a full send queue, in which case the turn
\* ends without that frame.
C1_DroppedTurn ==
    StreamFailedOrEmpty =>
        /\ turn_status \in {"running", "dropped"}
        /\ turn_status = "running" => pc \in {"send_end", "finally"}
        /\ db_steps = steps_before
        /\ pc = "continue" /\ ~shutdown =>
              /\ turn_frames # <<>>
              /\ turn_frames[Len(turn_frames)].type = "error"
              /\ turn_frames[Len(turn_frames)].turn_dropped
        /\ TurnOver /\ ~DroppedFrameEnqueued => shutdown /\ bp_hit

\* a stream that timed out after a delta was forwarded; the turn was dropped and
\* the loop goes on
C1_Witness ==
    /\ turn_status = "dropped"
    /\ pc = "continue"
    /\ ~shutdown
    /\ stream_failed_reason = "stream_timeout"
    /\ assistant_chunks # <<>>
    /\ DroppedFrameEnqueued

\* C2: the rows of a turn are persisted all together or not at all: every row
\* belongs to a committed turn, a committed turn has its user row, its assistant
\* row and the marker row exactly when add_activity_marker was set, and a turn
\* that is running, was dropped or whose commit failed has left the table as it
\* was.
C2_AllOrNothing ==
    /\ \A i \in DOMAIN db_steps : db_steps[i].turn \in 0..commits
    /\ \A t \in 1..commits :
          StepTypes(TurnRows(t)) =
              IF commit_log[t].add_activity_marker
              THEN <<"user", "assistant", ACTIVITY_STEP_TYPE>>
              ELSE <<"user", "assistant">>
    /\ turn_status \in {"running", "rejected", "dropped", "commit_failed"} =>
          db_steps = steps_before

\* a commit of three rows was rejected
C2_Witness ==
    /\ turn_status = "commit_failed"
    /\ prep.want_activity
    /\ pc = "send_last"

\* C3: the step log of the session holds at most one row of the activity-marker
\* kind.
C3_AtMostOneActivityMarker ==
    Cardinality({i \in DOMAIN db_steps : db_steps[i].step_type = ACTIVITY_STEP_TYPE}) <= 1

\* a turn with a hard trigger was committed on a session that had its marker
C3_Witness ==
    /\ turn_status = "committed"
    /\ already_fired(steps_before)
    /\ has_any(lower(user_text), HARD_TRIGGERS)
    /\ Len(db_steps) = Len(steps_before) + 2

RECURSIVE Grouped(_)
\* a sequence of step kinds made of groups user, assistant, optional marker
Grouped(types) ==
    IF types = <<>> THEN TRUE
    ELSE /\ Len(types) >= 2
         /\ types[1] = "user"
         /\ types[2] = "assistant"
         /\ IF Len(types) >= 3 /\ types[3] = ACTIVITY_STEP_TYPE
            THEN Grouped(SubSeq(types, 4, Len(types)))
            ELSE Grouped(SubSeq(types, 3, Len(types)))

\* C4: the persisted steps have the positions 1, 2, ... without gap or repeat
\* and form groups user, assistant, optional marker; each committed turn wrote
\* the positions reserved for it, the greatest position persisted before it
\* plus 1 and 2 (and 3 for the marker).
C4_GapFreeGroups ==
    /\ \A i \in DOMAIN db_steps : db_steps[i].step_order = i
    /\ Grouped(StepTypes(db_steps))
    /\ \A t \in 1..commits :
          LET c == commit_log[t] IN
          /\ c.user_order = c.greatest + 1
          /\ c.assistant_order = c.greatest + 2
          /\ StepOrders(TurnRows(t)) =
                IF c.add_activity_marker
                THEN <<c.greatest + 1, c.greatest + 2, c.greatest + 3>>
                ELSE <<c.greatest + 1, c.greatest + 2>>

\* a turn with the marker was committed on a session whose rows share a
\* created_at
C4_Witness ==
    /\ turn_status = "committed"
    /\ steps_before = HistoryWithTie
    /\ prep.want_activity
    /\ Len(db_steps) = 5

\* the current turn is committed and termination applies to it: the stage
\* computed for the prompt is 11 or the accumulated output holds the sentinel
CommittedWithTermination ==
    /\ turn_status = "committed"
    /\ \/ prep.current_step >= 11
       \/ contains(join(assistant_chunks), END_SESSION_TOKEN)

\* C5: in a committed turn with the stage for the prompt at 11 or with the
\* sentinel in the accumulated output, the persisted assistant text and the
\* text of every `message` frame are the fixed farewell, without the sentinel.
C5_FixedFarewell ==
    CommittedWithTermination =>
        /\ TurnRows(commits)[2].gpt_response = build_fixed_farewell
        /\ ~contains(TurnRows(commits)[2].gpt_response, END_SESSION_TOKEN)
        /\ \A i \in DOMAIN turn_frames :
              turn_frames[i].type = "message" =>
                  /\ turn_frames[i].message = build_fixed_farewell
                  /\ ~contains(turn_frames[i].message, END_SESSION_TOKEN)

\* below stage 11 the model returned a text with the sentinel; the turn was
\* committed and its message frame enqueued
C5_Witness ==
    /\ CommittedWithTermination
    /\ prep.current_step < 11
    /\ assistant_chunks = <<Fine, <<WS, END_SESSION_TOKEN>> >>
    /\ TurnFrames("message") # <<>>

\* C6 as stated: a committed turn that has run to its end on an open
\* connection and whose step frame reports stage 11 has the fixed farewell as
\* its assistant text, the session end timestamp set and a suggest_close frame
\* enqueued.
C6_ReportedFinalStageTerminates ==
    /\ turn_status = "committed"
    /\ pc = "continue"
    /\ ~shutdown
    /\ new_step = 11
    => /\ assistant_text = build_fixed_farewell
       /\ ended_at # 0
       /\ TurnFrames("suggest_close") # <<>>

\* C7 as stated: no state has the rows of a terminating turn persisted while
\* the session end timestamp is unset.
C7_EndedWithTheSteps ==
    turn_status = "committed" /\ terminating(prep.current_step, end_by_token) =>
        ended_at # 0

----------------------------------------------------------------------------
(* Properties of the gateway (SpecGateway) *)

\* C8 as stated: once a fragment was yielded to the caller, the gateway starts
\* no other backend and yields no fragment of another backend: the backend of
\* the current attempt and of every fragment is the one that yielded first.
C8_NoRetryAfterYield ==
    gw.yielded # <<>> =>
        /\ gw.attempts[Len(gw.attempts)] = gw.yielded[1]
        /\ \A i \in DOMAIN gw.yielded : gw.yielded[i] = gw.yielded[1]

----------------------------------------------------------------------------
(* Properties of the connection supervisor (SpecConn) *)

\* C10: once a put on the full send queue has timed out, shutdown is set, no
\* later step enqueues a frame, the receive loop leaves `recv` only to exit,
\* and the handler can always take its next step until the transport is
\* closed, which it is when the handler has returned.
C10_BackpressureShutdown ==
    /\ [](bp_hit => shutdown)
    /\ [][bp_hit => /\ Len(send_queue') <= Len(send_queue)
                    /\ pc = "recv" => pc' \in {"recv", "finally"}]_vars
    /\ [](bp_hit /\ ws_state # "closed" => ENABLED HandlerStep)
    /\ [](bp_hit /\ pc = "done" => ws_state = "closed")

\* the handler has returned after a put timed out
C10_Witness ==
    /\ bp_hit
    /\ pc = "done"
    /\ ws_state = "closed"
    /\ close_code = 1000

\* the handler has returned and the transport was closed by the server
ClosedByServer == pc = "done" /\ ws_state = "closed" /\ close_code # 1001

\* C11 as stated: a connection that the server closed after a put on the full
\* send queue had timed out was closed with the code 1013, not with the normal
\* code.
C11_BackpressureCloseCode ==
    bp_hit /\ ClosedByServer => close_code = 1013

\* transport writes in flight: the sender inside _ws_send_safe, the handler
\* inside a write of its own
WritesInFlight ==
    (IF sender_state = "write" THEN 1 ELSE 0) + (IF loop_writing THEN 1 ELSE 0)

\* C12 as stated: at most one write to the transport is in flight in any state;
\* no task writes while the sender is inside a write.
C12_SingleWriter == WritesInFlight <= 1

\* C13 as stated: no turn is committed on a transport that the client closed
\* after the message was accepted: every committed turn found the transport
\* open at its commit.
C13_NoCommitAfterClientClose ==
    \A t \in 1..commits : commit_log[t].transport = "open"

\* the steps that take the handler towards its end once the transport is closed
\* or shutdown is set
TerminationStep == HandlerStep \/ RecvDisconnect

\* C14 as stated, in the form a finite run refutes: in every state in which the
\* transport is closed or shutdown is set and the handler has not returned, the
\* handler can take a step towards its end; when it has returned the sender has
\* stopped.
C14_TerminatesAfterClose ==
    /\ (ws_state = "closed" \/ shutdown) /\ pc # "done" => ENABLED TerminationStep
    /\ pc = "done" => sender_state \in {"not_started", "done"}

\* C15 as stated, in the form a finite run refutes: in every state in which an
\* accepted message is being processed the handler can take its next step, by
\* the return of the call it awaits or by the timeout of that wait.
C15_NoWaitBlocksForever ==
    pc \notin {"recv", "done"} => ENABLED HandlerStep

\* the messages of the error frames of the recoverable errors
RecoverableMessages ==
    {"bad message payload", "unknown type", "message_too_large", "db_failed",
     "prompt_failed", "stream_timeout", "stream_failed:llm",
     "stream_failed:send_queue_backpressure", "empty_assistant_response",
     "server_error:assistant_step_commit", "recommend_unavailable",
     "recommend failed"}

\* the branch of the current frame ended in a recoverable error
RecoverableError ==
    /\ out_frame.type = "error"
    /\ out_frame.message[1] \in RecoverableMessages

\* the server has not closed the transport (the client may have)
ServerHasNotClosed == ws_state = "open" \/ close_code = 1001

\* C16 as stated: when a branch that met a recoverable error is over, the loop
\* is about to await the next frame, shutdown is not set and the server has not
\* closed the transport.
C16_RecoverableAlwaysOpen ==
    RecoverableError /\ pc \in {"continue", "finally"} =>
        pc = "continue" /\ ~shutdown /\ ServerHasNotClosed

\* C16, amended: when a branch that met a recoverable error is over and no put
\* has timed out on the full send queue, the loop is about to await the next
\* frame, shutdown is not set and the server has not closed the transport, and
\* its next step takes it to the receive with the connection as it was; when a
\* put has timed out (that of the error frame included) shutdown is set.
C16_RecoverableKeepsOpen ==
    /\ [](RecoverableError /\ pc \in {"continue", "finally"} =>
             IF bp_hit THEN shutdown
             ELSE pc = "continue" /\ ~shutdown /\ ServerHasNotClosed)
    /\ [][RecoverableError /\ pc = "continue" /\ ~bp_hit /\ pc' # pc =>
             pc' = "recv" /\ ~shutdown' /\ ws_state' = ws_state]_vars
    /\ [](Receiving /\ commits < MaxCommits => ENABLED RecvMessage)

\* the commit of a turn failed, its error frame was enqueued and the loop goes on
C16_Witness ==
    /\ turn_status = "commit_failed"
    /\ pc = "continue"
    /\ ~shutdown
    /\ ws_state = "open"
    /\ turn_frames # <<>>
    /\ turn_frames[Len(turn_frames)] = ErrorFrame("server_error:assistant_step_commit", FALSE)

\* the current message was refused for its size
Rejected == out_frame = ErrorFrame("message_too_large", FALSE)

\* the size rule and what a refusal leaves untouched: a refused text is longer
\* than the ceiling and an accepted one is not; a refusal goes from the receive
\* straight to its error frame, without a result of the store, without a stream
\* and without a change of the step records
SizeRule ==
    /\ turn_status = "running" => utf8_len(user_text) <= WS_MAX_USER_TEXT_LEN
    /\ Rejected =>
          /\ utf8_len(user_text) > WS_MAX_USER_TEXT_LEN
          /\ pc \in {"send_last", "continue", "finally"}
          /\ turn_status = "none"
          /\ prep = NoPrep /\ llm_rest = <<>> /\ assistant_chunks = <<>>
          /\ db_steps = steps_before

\* C18 as stated: the size rule, and when the branch of a refused message is
\* over the loop is about to await the next frame on an open connection.
C18_OversizeAlwaysOpen ==
    /\ SizeRule
    /\ Rejected /\ pc \in {"continue", "finally"} =>
          pc = "continue" /\ ~shutdown /\ ServerHasNotClosed

\* C18, amended: the size rule; when the branch of a refused message is over
\* and no put has timed out on the full send queue the loop is about to await
\* the next frame, shutdown is not set and the server has not closed the
\* transport, and its next step takes it to the receive; when the put of the
\* error frame has timed out shutdown is set.
C18_OversizeRejected ==
    /\ []SizeRule
    /\ [](Rejected /\ pc \in {"continue", "finally"} =>
             IF bp_hit THEN shutdown
             ELSE pc = "continue" /\ ~shutdown /\ ServerHasNotClosed)
    /\ [][Rejected /\ pc = "continue" /\ ~bp_hit /\ pc' # pc =>
             pc' = "recv" /\ ~shutdown' /\ ws_state' = ws_state]_vars

\* a text of the ceiling plus four bytes was refused, its error frame was
\* queued and the loop goes on with the store as it was
C18_Witness ==
    /\ Rejected
    /\ pc = "continue"
    /\ ~shutdown
    /\ ~bp_hit
    /\ user_text = Oversized
    /\ db_steps = steps_before

----------------------------------------------------------------------------
(* Properties of the connection from the handshake on (SpecAuth) *)

\* a connection-fatal event has been met: an authentication failure, the idle
\* timeout, a successful `close`, or a put that timed out on the full queue
FatalMet == fatal # "none" \/ bp_hit

\* C17: once an authentication failure, the idle timeout, a successful `close`
\* or send-queue saturation has been met, no step persists a step record, the
\* receive loop leaves the receive only to exit and a handler that has returned
\* stays so; the handler can always take its next step until it has returned,
\* and then the sender has stopped and the transport is closed.
C17_FatalTerminates ==
    /\ [][FatalMet => /\ db_steps' = db_steps
                      /\ pc = "recv" => pc' \in {"recv", "finally"}
                      /\ pc = "done" => pc' = "done"]_vars
    /\ [](FatalMet /\ pc # "done" => ENABLED HandlerStep)
    /\ [](FatalMet /\ pc = "done" =>
             sender_state \in {"not_started", "done"} /\ ws_state = "closed")

\* the handler has returned after the idle timeout, with open_ok still queued
C17_Witness ==
    /\ fatal = "idle_timeout"
    /\ pc = "done"
    /\ sender_state = "done"
    /\ ws_state = "closed"
    /\ accepted

\* the handshake presents a token that does not decode, or no token while the
\* anonymous test mode is off
Unauthorized == raw_token = "invalid" \/ (raw_token = "none" /\ ~allow_web_test)

\* C20: a connection with an invalid token (whatever the test mode) or with no
\* token while the test mode is off is never accepted, has no sender task, no
\* session and no turn, and when its handler has returned the transport was
\* closed with 4401; with no token and the test mode on the connection is not
\* closed with 4401.
C20_UnauthorizedRejected ==
    /\ Unauthorized =>
          /\ pc \in {"connect", "done"}
          /\ ~accepted
          /\ sender_state = "not_started"
          /\ session_id = "none"
          /\ turn_status = "none" /\ commits = 0 /\ db_steps = History(1)
          /\ pc = "done" => ws_state = "closed" /\ close_code = 4401
    /\ raw_token = "none" /\ allow_web_test => close_code # 4401

\* an invalid token was refused while the anonymous test mode is on
C20_Witness ==
    /\ raw_token = "invalid"
    /\ allow_web_test
    /\ pc = "done"
    /\ close_code = 4401
    /\ ~accepted

\* the frame of this iteration is a protocol violation: a binary frame, or a
\* text that looks like JSON and that json.loads refuses
ProtocolViolation ==
    \/ event.kind = "bytes"
    \/ event.kind = "text" /\ looks_like_json(event.chars) /\ event.loads = "raises"

\* the frame of this iteration is a JSON object with a type that no branch
\* handles, or a `message` without its text
WellFormedRefused ==
    /\ event.kind = "text" /\ event.loads = "dict" /\ event.obj.type # ""
    /\ \/ event.obj.type \notin MSG_TYPES
       \/ event.obj.type = MSG_MESSAGE /\ ~event.obj.has_text

\* what holds of both kinds of frame whatever the send queue does: a protocol
\* violation is on the branch that sends its reason and closes, a refused
\* well-formed frame on the branch that sends one error frame; neither runs a
\* turn nor changes the step records; the code 1007 closes nothing else
InvalidFrameRule ==
    /\ ProtocolViolation =>
          /\ pc \in {"send_invalid", "close_invalid", "finally", "done"}
          /\ pc = "send_invalid" =>
                out_frame.type = "error" /\
                out_frame.message[1] \in {"invalid_json", "binary_frames_not_allowed"}
          /\ turn_status = "none" /\ user_text = <<>>
          /\ db_steps = steps_before
    /\ WellFormedRefused =>
          /\ pc \in {"send_last", "continue", "finally", "done"}
          /\ pc = "send_last" => out_frame.type = "error"
          /\ turn_status = "none" /\ user_text = <<>>
          /\ db_steps = steps_before
          /\ close_code # 1007
    /\ close_code = 1007 => ProtocolViolation /\ ws_state = "closed"

----------------------------------------------------------------------------
(* The turn cap *)

\* WSConfig.SESSION_MAX_TURNS, taken small; no code of the handler reads it
SESSION_MAX_TURNS == 1

\* _turn_count: the rows of the session whose step_type is "user"
turn_count(db) == Cardinality({i \in 1..Len(db) : db[i].step_type = "user"})

\* C21 as stated: no turn is committed for a message that was accepted when the
\* session already held SESSION_MAX_TURNS user steps.
C21_TurnCap ==
    turn_status = "committed" => turn_count(steps_before) < SESSION_MAX_TURNS

----------------------------------------------------------------------------
(* The recommendation fuse (SpecAuth) *)

\* the handler awaits the recommender
RecommenderInvoked == pc \in {"recommend", "task_recommend"}

\* the current branch has to answer a recommendation request: an explicit
\* `task_recommend`, or a committed turn that wants an activity
RecommendationAsked ==
    \/ event.kind = "text" /\ event.obj.type = MSG_TASK_RECOMMEND
    \/ turn_status = "committed" /\ prep.want_activity

\* C22: a tripped fuse stays tripped; with the fuse tripped the recommender is
\* not awaited and no task_recommend_ok is handed to guard_send, and the frame
\* that answers a recommendation request is an error frame; a call of the
\* recommender, failed or not, leaves the step records and the count of
\* committed turns as they are; the fuse is tripped only by a step that leaves
\* a call of the recommender.
C22_FuseStaysTripped ==
    /\ [][recommend_fuse_tripped => recommend_fuse_tripped']_vars
    /\ [](recommend_fuse_tripped => ~RecommenderInvoked)
    /\ [](recommend_fuse_tripped => out_frame.type # "task_recommend_ok")
    /\ [](recommend_fuse_tripped /\ RecommendationAsked /\ pc = "send_last" =>
             /\ out_frame.type = "error"
             /\ out_frame.message[1] \in {"recommend_unavailable", "recommend failed"})
    /\ [][RecommenderInvoked /\ pc' # pc =>
             db_steps' = db_steps /\ commits' = commits]_vars
    /\ [][~recommend_fuse_tripped /\ recommend_fuse_tripped' =>
             RecommenderInvoked /\ ~RecommenderInvoked']_vars

\* after a turn was committed and the fuse tripped, an explicit task_recommend
\* was refused with recommend_unavailable; the rows of the turn are stored
C22_Witness ==
    /\ recommend_fuse_tripped
    /\ event = TypedFrame(MSG_TASK_RECOMMEND)
    /\ out_frame = ErrorFrame("recommend_unavailable", FALSE)
    /\ pc = "continue"
    /\ commits = 1
    /\ \E i \in 1..Len(db_steps) : db_steps[i].turn = 1

----------------------------------------------------------------------------
(* The frames of one turn (Spec) *)

\* where a frame takes the sequence of a turn, "no" when it is out of order:
\* before the stream one error frame ends a turn whose context or prompt
\* failed; after `step` the answer of the automatic recommendation may follow
frame_position(at, f) ==
    CASE at = "start" /\ f.type = "message_start" -> "stream"
      [] at = "start" /\ f.type = "error" /\ ~f.turn_dropped -> "over"
      [] at = "stream" /\ f.type = "message_delta" -> "stream"
      [] at = "stream" /\ f.type = "message_end" -> "ended"
      [] at = "ended" /\ f.type = "error" -> "over"
      [] at = "ended" /\ f.type = "message" -> "message"
      [] at = "message" /\ f.type = "step" -> "step"
      [] at = "step" /\ f.type = "suggest_close" -> "suggest"
      [] at \in {"step", "suggest"} /\ f.type \in {"task_recommend_ok", "error"} -> "over"
      [] OTHER -> "no"

RECURSIVE FrameOrder(_, _)
\* the frames fs, enqueued from the position at on, are in order
FrameOrder(fs, at) ==
    IF fs = <<>> THEN TRUE
    ELSE LET to == frame_position(at, Head(fs)) IN
         to # "no" /\ FrameOrder(Tail(fs), to)

\* a message was accepted as a turn in this iteration
InTurn == turn_status \in {"running", "rejected", "dropped", "committed", "commit_failed"}

\* the order of the frames of a turn; a `message` frame only after the commit
\* that stored the rows of the turn; suggest_close at most once and only on a
\* terminating turn
FrameOrderRule ==
    /\ InTurn => FrameOrder(turn_frames, "start")
    /\ TurnFrames("message") # <<>> =>
          /\ turn_status = "committed"
          /\ db_steps = steps_before \o TurnRows(commits)
          /\ Len(TurnRows(commits)) >= 2
    /\ Len(TurnFrames("suggest_close")) <= 1
    /\ TurnFrames("suggest_close") # <<>> => CommittedWithTermination

\* C23 as stated: the order rule; when the branch of a turn whose stream raised
\* or timed out is over, message_end has been enqueued; when the branch of a
\* committed terminating turn is over, one suggest_close has been enqueued.
C23_FramesAlwaysComplete ==
    /\ FrameOrderRule
    /\ InTurn /\ stream_failed_reason # "" /\ TurnOver =>
          TurnFrames("message_end") # <<>>
    /\ CommittedWithTermination /\ TurnOver =>
          Len(TurnFrames("suggest_close")) = 1

\* C23, amended: the order rule; when the branch of a turn whose stream raised
\* or timed out is over and no put has timed out on the full send queue,
\* message_end has been enqueued; when the branch of a committed terminating
\* turn is over and no put has timed out, `step` and one suggest_close have
\* been enqueued.
C23_FrameOrder ==
    /\ FrameOrderRule
    /\ InTurn /\ stream_failed_reason # "" /\ TurnOver /\ ~bp_hit =>
          TurnFrames("message_end") # <<>>
    /\ CommittedWithTermination /\ TurnOver /\ ~bp_hit =>
          /\ Len(TurnFrames("step")) = 1
          /\ Len(TurnFrames("suggest_close")) = 1

\* a terminating turn was committed and its branch is over: message_start, a
\* message_delta, message_end, message, step and suggest_close were enqueued
C23_Witness ==
    /\ CommittedWithTermination
    /\ pc = "continue"
    /\ ~bp_hit
    /\ TurnFrames("message_delta") # <<>>
    /\ Len(turn_frames) >= 6
    /\ turn_frames[Len(turn_frames)].type = "suggest_close"

----------------------------------------------------------------------------
(* The step manager and the activity policy over several turns (SpecStage) *)

\* turns of one behaviour of SpecStage
MaxStageTurns == 4

Hi   == <<"hi">>
Loud == <<"SO", "TIRED">>

\* a row of an analysis-like kind after the rows of db (rows of any kind are
\* written by POST /sessions/{id}/steps, routers/emotion.py)
with_analysis(db) ==
    db \o <<EmotionStep(db[Len(db)].step_order + 1, "analysis", <<>>, <<>>,
                        last_created_at(db) + 1, 0)>>

HistoryWithAnalysis == with_analysis(History(1))

\* the <<user text, reply>> pairs a turn is taken from: a bare greeting, a text
\* with an emotion word and a hard trigger, and the pair that advances the
\* stage the history is at (at the last stage, where no pair advances, the
\* trigger text in upper case)
StageTurns(db) ==
    LET at == compute_current_step(db) IN
    {<<Hi, Fine>>, <<Tired, Fine>>}
    \cup (IF at < MAX_STEP THEN {AdvancingScript[at]} ELSE {<<Loud, Fine>>})

\* two neighbouring rows share one created_at
has_tie(db) == \E i \in 1..(Len(db) - 1) : db[i].created_at = db[i + 1].created_at

\* the system prompt the gateway is called with: the prompt file, then the
\* blocks that are not empty
effective_system_prompt(p) ==
    SYSTEM_PROMPT \o p.end_session_context \o p.soft_timeout_hint

InitStage ==
    /\ db_steps \in {History(0), History(9), HistoryWithAnalysis,
                     with_analysis(HistoryWithMarker)}
    /\ mode = "mask"
    /\ client_texts = {}
    /\ llm_streams = {}
    /\ raw_token = "valid"
    /\ allow_web_test = FALSE
    /\ raw_frames = {}
    /\ gw = GwIdle
    /\ InitLocals
    /\ InitIdleServices
    /\ pc = "classify"
    /\ sender_state = "get"
    /\ accepted = TRUE
    /\ session_id = "created"

\* _prepare_message_context for the text of a message: the history is loaded
\* in created_at order, the stage for the prompt, the policy, the reservation
\* and the soft-timeout hint are computed from it
Classify ==
    /\ pc = "classify"
    /\ commits < MaxStageTurns
    /\ \E turn \in StageTurns(db_steps), steps \in order_by_created_at(db_steps) :
        /\ user_text' = turn[1]
        /\ prep' = prepare_message_context(db_steps, steps, turn[1])
    /\ steps_before' = db_steps
    /\ assistant_text' = <<>>
    /\ end_by_token' = FALSE
    /\ new_step' = 0
    /\ turn_status' = "running"
    /\ pc' = "advance"
    /\ UNCHANGED <<db_steps, ended_at, mode, shutdown, send_queue, sender_state, ws_state,
                   close_code, recommend_fuse_tripped, llm_rest, assistant_chunks,
                   stream_failed_reason, out_frame, turn_frames, commits, commit_log,
                   bp_hit, mark_tried, other_vars>>

\* the reply of the turn is complete: the farewell replaces it on termination,
\* step_after_turn gives the stage to report and _commit_full_turn writes the rows
Advance ==
    /\ pc = "advance"
    /\ \E turn \in StageTurns(steps_before), d2 \in {0, 1} :
        LET term == terminating(prep.current_step, FALSE)
            final == IF term THEN build_fixed_farewell ELSE turn[2]
            rows == commit_rows(user_text, final, prep.user_order, prep.assistant_order,
                                prep.want_activity, last_created_at(db_steps) + 1,
                                d2, 1, commits + 1)
        IN /\ turn[1] = user_text
           /\ d2 = 0 => ~has_tie(db_steps)
           /\ assistant_text' = final
           /\ end_by_token' = term
           /\ new_step' = step_after_turn(prep.steps, user_text, final)
           /\ IF unique_violation(db_steps, rows)
              THEN /\ db_steps' = rollback(db_steps, rows)
                   /\ turn_status' = "commit_failed"
                   /\ UNCHANGED commits
              ELSE /\ db_steps' = db_steps \o rows
                   /\ turn_status' = "committed"
                   /\ commits' = commits + 1
           /\ commit_log' =
                 IF unique_violation(db_steps, rows) THEN commit_log
                 ELSE Append(commit_log,
                        [user_order |-> prep.user_order,
                         assistant_order |-> prep.assistant_order,
                         add_activity_marker |-> prep.want_activity,
                         greatest |-> max_step_order(db_steps),
                         transport |-> ws_state,
                         ended_at |-> ended_at,
                         current_step |-> prep.current_step,
                         new_step |-> step_after_turn(prep.steps, user_text, final)])
    /\ pc' = "classify"
    /\ UNCHANGED <<ended_at, mode, shutdown, send_queue, sender_state, ws_state,
                   close_code, recommend_fuse_tripped, user_text, prep, llm_rest,
                   assistant_chunks, stream_failed_reason, out_frame, steps_before,
                   turn_frames, bp_hit, mark_tried, other_vars>>

NextStage ==
    \/ Classify
    \/ Advance

SpecStage == InitStage /\ [][NextStage]_vars

----------------------------------------------------------------------------
(* Properties of the step manager (SpecStage) *)

\* the histories the next load of the session may return
Loads == order_by_created_at(db_steps)

Prefixes(h) == {SubSeq(h, 1, k) : k \in 0..Len(h)}

\* compute_step_status of every prefix of h, by the length of the prefix
StatusOfPrefixes(h) == [k \in 0..Len(h) |-> compute_step_status(SubSeq(h, 1, k))]

\* C24: for every history h and every prefix p of h the stage computed for p is
\* not greater than the stage computed for h, every computed stage lies in
\* 1..11, and the empty history gives stage 1 with stagnant_turns 0
C24_StageMonotone ==
    /\ compute_step_status(<<>>) = <<1, 0>>
    /\ \A h \in Loads :
        LET status == StatusOfPrefixes(h) IN
        \A k \in 0..Len(h) :
            /\ status[k][1] <= status[Len(h)][1]
            /\ status[k][1] \in 1..MAX_STEP
            /\ k > 0 => status[k - 1][1] <= status[k][1]

\* C24 witness: a history that climbed to the last stage in this behaviour and
\* has prefixes at a lower stage
C24_Witness ==
    /\ pc = "classify"
    /\ turn_status = "committed"
    /\ compute_current_step(db_steps) = MAX_STEP
    /\ \E p \in Prefixes(db_steps) : compute_current_step(p) = MAX_STEP - 1

\* the stage reported for the committed turn is the stage of every list the
\* next load of the session may return
ReportedStageIsStored ==
    turn_status = "committed" => \A h \in Loads : compute_current_step(h) = new_step

\* step_after_turn against compute_current_step of the extended history
AfterTurnIsClassify ==
    pc = "classify" /\ turn_status # "none" =>
        new_step = compute_current_step(
                       prep.steps \o commit_rows(user_text, assistant_text, prep.user_order,
                                                 prep.assistant_order, FALSE, 0, 1, 1, 0))

\* C25: step_after_turn(h, u, a) is the stage compute_current_step gives for h
\* extended with a user step u and an assistant step a, and the stage reported
\* for a committed turn is the stage every later load of the stored history
\* gives
C25_ReportedStageRecomputed == AfterTurnIsClassify /\ ReportedStageIsStored

\* the first message of a session is in its turn
FirstTurn == prep.steps = <<>> /\ turn_status \in {"running", "committed"}

\* ... and it has an emotion word and is not a bare greeting
FirstEmotionTurn ==
    /\ FirstTurn
    /\ has_any(norm(user_text), EMOTION_WORDS)
    /\ ~is_greeting_only(user_text)

\* C26 as stated: with an empty history a first message with an emotion word
\* leaves the stage for the prompt at 1
C26_FirstTurnStaysAtOne == FirstEmotionTurn => prep.current_step = 1

\* C26: with an empty history step_for_prompt evaluates stage 1's predicate
\* alone: a first message that is not a bare greeting gives stage 2, also when
\* it has an emotion word (never stage 3), a bare greeting gives stage 1, and
\* the stage reported after the turn is the same
C26_FirstTurnOneAdvance ==
    /\ FirstTurn =>
        /\ prep.current_step = IF is_greeting_only(user_text) THEN 1 ELSE 2
        /\ turn_status = "committed" => new_step = prep.current_step
    /\ FirstEmotionTurn => prep.current_step = 2

\* C26 witness: the first turn of a session, with an emotion word, is committed
C26_Witness ==
    /\ FirstEmotionTurn
    /\ steps_before = <<>>
    /\ user_text = Tired
    /\ turn_status = "committed"
    /\ new_step = 2

\* the completed rounds at the end of h since the stage last changed: the
\* assistant rows after the last row at which the stage of the prefix changes
StagnantRounds(h) ==
    LET status == StatusOfPrefixes(h)
        changes == {k \in 1..Len(h) : status[k][1] # status[k - 1][1]}
        last == IF changes = {} THEN 0
                ELSE CHOOSE k \in changes : \A j \in changes : j <= k
    IN Cardinality({k \in (last + 1)..Len(h) : h[k].step_type = "assistant"})

HintInPrompt(p) == contains(effective_system_prompt(p), "[SOFT TIMEOUT]")

SoftTimeoutThreshold == IF SOFT_TIMEOUT_TURNS < 1 THEN 1 ELSE SOFT_TIMEOUT_TURNS

\* the hint as a function of the list the turn loaded
HintIffStagnantLoaded ==
    turn_status = "running" =>
        /\ HintInPrompt(prep) <=> StagnantRounds(prep.steps) >= SoftTimeoutThreshold
        /\ prep.current_step = step_for_prompt(prep.steps, user_text)

\* C27: the soft-timeout hint is in the system prompt of a turn if and only if
\* the stored history ends with at least max(1, SOFT_TIMEOUT_TURNS) completed
\* rounds that did not advance the stage, and the stage of the turn does not
\* depend on the hint
C27_HintIffStagnant ==
    turn_status = "running" =>
        /\ HintInPrompt(prep) <=> StagnantRounds(steps_before) >= SoftTimeoutThreshold
        /\ prep.current_step = step_for_prompt(prep.steps, user_text)

----------------------------------------------------------------------------
(* Properties of the activity policy (SpecStage) *)

MarkerExists(db) == \E i \in 1..Len(db) : db[i].step_type = ACTIVITY_STEP_TYPE

\* the kind of the most recent step of the loaded history is analysis-like
AfterAnalysis(steps) ==
    /\ steps # <<>>
    /\ steps[Len(steps)].step_type \in {"analysis", "insight", "emotion_summary"}

\* the text has a distress keyword, in any case
DistressText(text) == \E i \in 1..Len(text) : lower(<<text[i]>>)[1] \in HARD_TRIGGERS

\* C28: is_activity_turn is false whenever the session has an activity marker or
\* the history is empty, whatever the text; otherwise it is true exactly when
\* the most recent step is of an analysis-like kind or the text has a distress
\* keyword
C28_ShouldTrigger ==
    turn_status = "running" =>
        IF MarkerExists(steps_before) \/ prep.steps = <<>>
        THEN ~prep.want_activity
        ELSE prep.want_activity <=> (AfterAnalysis(prep.steps) \/ DistressText(user_text))

\* C28 witness: the policy triggers after an analysis row on a text without a
\* keyword
C28_Witness ==
    /\ turn_status = "running"
    /\ prep.want_activity
    /\ AfterAnalysis(prep.steps)
    /\ ~DistressText(user_text)

----------------------------------------------------------------------------
(* Properties of the leak guard (Spec) *)

\* no token of the text is matched by a marker pattern
NoMarker(text) == \A i \in 1..Len(text) : marker_form(text[i]) \notin DEFAULT_MARKERS

\* the piece the gateway yields next
NextPiece == Head(llm_rest)

\* the prompt fingerprints of the claim: that of the session and the empty one
Fingerprints == {sys_fp, {}}

LetThrough ==
    {assistant_chunks[i] : i \in 1..Len(assistant_chunks)}
    \cup (IF out_frame.type = "message_delta" THEN {out_frame.message} ELSE {})

LeakCandidate(piece) == might_leak(piece, sys_fp, LEAK_GUARD_NGRAM)

\* in drop mode no leak candidate is let through
DropModeDrops == mode = "drop" => \A piece \in LetThrough : ~LeakCandidate(piece)

\* C30: a fragment that is a leak candidate is never forwarded or accumulated
\* as it came: in drop mode it is dropped, in mask mode what is let through is
\* a redacted form of it
C30_LeakNeverVerbatim ==
    \A piece \in LetThrough :
        LeakCandidate(piece) => mode = "mask" /\ contains(piece, "[redacted]")

----------------------------------------------------------------------------
(* One recommendation requested by a task_recommend frame (SpecRecommend) *)

InitRecommend ==
    /\ db_steps = History(1)
    /\ mode = "mask"
    /\ client_texts = {}
    /\ llm_streams = {}
    /\ raw_token = "valid"
    /\ allow_web_test = FALSE
    /\ raw_frames = {TypedFrame(MSG_TASK_RECOMMEND)}
    /\ gw = GwIdle
    /\ InitLocals
    /\ InitIdleServices
    /\ pc = "task_recommend"
    /\ sender_state = "get"
    /\ accepted = TRUE
    /\ session_id = "created"

NextRecommend ==
    \/ RecommendCall
    \/ WorkerSession
    \/ WorkerCore
    \/ RecommendTimeout
    \/ RecommendReturn

SpecRecommend == InitRecommend /\ [][NextRecommend]_vars

\* what the attempt persisted is what the pipeline was told, for the attempts
\* that were not given up
ReportedAsPersisted ==
    /\ rec.waiter = "failed" => tasks = <<>>
    /\ rec.waiter = "ok" => tasks = rec.reported

\* C31: task records of a recommendation attempt are persisted if and only if
\* the attempt is reported to the pipeline as successful: none after a failure
\* or a time-out, exactly the returned items after a success
C31_TasksIffReported ==
    /\ rec.waiter \in {"failed", "timeout"} => tasks = <<>>
    /\ rec.waiter = "ok" => tasks = rec.reported

\* an entry that is an object with a title that is not blank
WellFormed(entry) == entry.kind = "object" /\ strip(entry.title) # <<>>

RECURSIVE WellFormedOf(_)
\* the titles of the well-formed entries of items, in their order
WellFormedOf(items) ==
    IF items = <<>> THEN <<>>
    ELSE (IF WellFormed(Head(items)) THEN <<[title |-> strip(Head(items).title)]>>
          ELSE <<>>) \o WellFormedOf(Tail(items))

\* the well-formed entries among the first n of the array, n clamped to 1..5
ExpectedItems == WellFormedOf(first_n(rec.raw.array, clamp_n(rec.n)))

\* the worker got an array from the model and has finished
ArrayAnswered == rec.worker \in {"returned", "raised"} /\ rec.owned /\ parsed_is_list(rec.raw)

\* the claim on the answers whose first n entries are all objects
ObjectsOnlyResult ==
    ArrayAnswered /\ (\A i \in 1..Len(rec.raw.array) :
                            i <= clamp_n(rec.n) => rec.raw.array[i].kind = "object") =>
        /\ Len(rec.out) <= REC_MAX_ITEMS
        /\ ExpectedItems # <<>> => rec.worker = "returned" /\ rec.out = ExpectedItems
        /\ ExpectedItems = <<>> => rec.worker = "raised"

\* C32: the result of a recommendation is the list of the well-formed entries
\* among the first n entries of the parsed array, n clamped to 1..5; entries
\* that are no objects or have no title are discarded without failing the call
\* as long as one valid entry remains
C32_WellFormedEntries ==
    ArrayAnswered =>
        /\ Len(rec.out) <= REC_MAX_ITEMS
        /\ ExpectedItems # <<>> => rec.worker = "returned" /\ rec.out = ExpectedItems

----------------------------------------------------------------------------
(* One request of the streaming health check (SpecHealth) *)

InitHealth ==
    /\ db_steps = <<>>
    /\ mode = "mask"
    /\ client_texts = {}
    /\ llm_streams = {}
    /\ raw_token = "valid"
    /\ allow_web_test = FALSE
    /\ raw_frames = {}
    /\ gw = GwIdle
    /\ InitLocals
    /\ pc = "recv"
    /\ sender_state = "get"
    /\ accepted = TRUE
    /\ session_id = "created"
    /\ tasks = <<>>
    /\ rec = RecIdle
    /\ refresh = RefreshIdle
    /\ overlap = OverlapIdle
    /\ risk = RiskIdle
    /\ \E q \in {<<>>, <<"say", "hi">>}, gateway \in Gateways, script \in HealthScripts :
        health = [HealthIdle EXCEPT !.q = q, !.gateway = gateway, !.script = script]

NextHealth ==
    \/ HealthCall
    \/ HealthPiece
    \/ HealthRaise
    \/ HealthRespond

SpecHealth == InitHealth /\ [][NextHealth]_vars

RECURSIVE NonEmpty(_)
\* the fragments of a script that are not ""
NonEmpty(pieces) ==
    IF pieces = <<>> THEN <<>>
    ELSE (IF Head(pieces) = <<>> THEN <<>> ELSE <<Head(pieces)>>) \o NonEmpty(Tail(pieces))

AllBlank(pieces) == strip(join(pieces)) = <<>>

Answered == health.state = "done"

\* the outcomes the claim names, for the script of the request
OutcomeMapped(text_of(_)) ==
    LET script == health.script
        pieces == NonEmpty(script.pieces)
    IN /\ script.raises = "none" /\ ~AllBlank(pieces) =>
            /\ health.response.status = 200
            /\ health.response.ok
            /\ health.response.tokens = Len(pieces)
            /\ health.response.text = text_of(pieces)
       /\ script.raises = "blocked_by_content_filter" =>
            health.response = HttpError(503, "blocked_by_content_filter")
       /\ script.raises = "none" /\ AllBlank(pieces) =>
            health.response = HttpError(503, "llm_stream_empty")

StrippedText(pieces) == strip(join(pieces))

\* with a gateway that takes the keywords of the call and is an async
\* generator, and a prompt given in q, the outcomes are mapped (the text stripped)
StandInMapped ==
    Answered /\ health_call(health.gateway) = "streaming" /\ health.q # <<>> =>
        OutcomeMapped(StrippedText)

\* C33: the streaming health check calls the gateway with system_prompt,
\* task_prompt and a conversation, and answers ok with the number of non-empty
\* fragments and their concatenation, 503 blocked_by_content_filter when the
\* gateway raises that RuntimeError, 503 llm_stream_empty on an all-blank output
C33_HealthStreamContract ==
    Answered =>
        /\ binds(LlmServiceGateway, HEALTH_STREAM_KEYWORDS)
        /\ OutcomeMapped(join)

----------------------------------------------------------------------------
(* Requests of POST /auth/refresh on one token table (SpecRefresh) *)

InitRefresh ==
    /\ db_steps = <<>>
    /\ mode = "mask"
    /\ client_texts = {}
    /\ llm_streams = {}
    /\ raw_token = "valid"
    /\ allow_web_test = FALSE
    /\ raw_frames = {}
    /\ gw = GwIdle
    /\ InitLocals
    /\ InitIdleServices
    /\ pc = "recv"
    /\ sender_state = "get"
    /\ accepted = TRUE
    /\ session_id = "created"

NextRefresh ==
    \/ \E r \in RefreshRequests, t \in PresentedTokens : RefreshLoad(r, t)
    \/ \E r \in RefreshRequests : RefreshRotate(r)
    \/ \E t \in {"J0", "K0"} : RefreshExpire(t)

SpecRefresh == InitRefresh /\ [][NextRefresh]_vars

\* the requests that exchanged the token t
Exchanged(t) ==
    {r \in RefreshRequests : refresh.reqs[r].token = t /\ refresh.reqs[r].status = 200}

\* no token was exchanged by two requests
AtMostOneSuccess == \A t \in PresentedTokens : Cardinality(Exchanged(t)) <= 1

\* a request that presented a rotated or revoked token got 401 and left no
\* unrevoked token of the user
ReuseRevokesAll ==
    \A r \in RefreshRequests :
        LET req == refresh.reqs[r] IN
        (req.state = "done" /\ req.was_rotated) =>
            (req.status = 401 /\ req.left_unrevoked = {})

\* C34: a refresh token is exchanged successfully at most once, whatever the
\* interleaving of the requests presenting it, and a later presentation of a
\* rotated or revoked token fails with 401 and revokes every unrevoked refresh
\* token of that user
C34_ExchangedAtMostOnce == AtMostOneSuccess /\ ReuseRevokesAll

\* what the code does keep: the requests of one server process exchange a token
\* at most once
OncePerWorker ==
    \A t \in PresentedTokens : \A r, q \in Exchanged(t) :
        worker_of(r) = worker_of(q) => r = q

\* and a rotated or revoked token that still verifies is answered 401 "reused"
\* with every token of the user revoked by that request
VerifiedReuseRevokesAll ==
    \A r \in RefreshRequests :
        LET req == refresh.reqs[r] IN
        (req.state = "done" /\ req.was_rotated /\ ~req.was_expired) =>
            (req.status = 401 /\ req.detail = "Refresh token reused"
             /\ req.left_unrevoked = {})

----------------------------------------------------------------------------
(* The pipeline and two REST calls on one session (SpecOverlap) *)

InitOverlap ==
    /\ db_steps \in {<<>>, History(1), HistoryWithAnalysis, HistoryWithMarker}
    /\ mode = "mask"
    /\ client_texts = {}
    /\ llm_streams = {}
    /\ raw_token = "valid"
    /\ allow_web_test = FALSE
    /\ raw_frames = {}
    /\ gw = GwIdle
    /\ InitLocals
    /\ InitIdleServices
    /\ pc = "recv"
    /\ sender_state = "get"
    /\ accepted = TRUE
    /\ session_id = "created"

NextOverlap ==
    \/ \E e \in Executions, text \in {Hi, Tired} : OverlapPrepare(e, text)
    \/ \E e \in Executions : OverlapReserve(e)
    \/ \E e \in Executions : OverlapCommit(e)

SpecOverlap == InitOverlap /\ [][NextOverlap]_vars

\* no two rows of the session share a step_order
UniquePositions ==
    \A i, j \in DOMAIN db_steps : db_steps[i].step_order = db_steps[j].step_order => i = j

\* the rows of the activity-marker kind
MarkerRows == {i \in DOMAIN db_steps : db_steps[i].step_type = ACTIVITY_STEP_TYPE}

\* an execution whose commit was rejected has no row in the table, and the
\* rejected commit left the table as it found it
RejectedPersistsNothing ==
    \A e \in Executions :
        overlap[e].outcome = "rejected" =>
            \A i \in DOMAIN db_steps : db_steps[i].turn # turn_of(e)

\* C35: when turn executions on the same session overlap, the step log keeps
\* unique positions and at most one activity marker, and an execution whose
\* commit is rejected persists none of its records
C35_OverlapKeepsLog ==
    /\ UniquePositions
    /\ Cardinality(MarkerRows) <= 1
    /\ RejectedPersistsNothing

\* what the unique constraint and the transaction keep
OverlapKeepsPositions == UniquePositions /\ RejectedPersistsNothing

\* executions that do not overlap (each reads the history after the commits
\* before it) leave at most one marker
Sequential ==
    \A e \in Executions :
        overlap[e].outcome = "committed" =>
            overlap[e].want_activity = is_activity_turn(overlap[e].text,
                overlap[e].table_before, overlap[e].table_before)
SequentialOneMarker == Sequential => Cardinality(MarkerRows) <= 1

----------------------------------------------------------------------------
(* The frames left on the queue when the handler returns (SpecConn) *)

\* C36: every frame accepted into the send queue before shutdown is written to
\* the transport, in enqueue order, before the transport is closed; in
\* particular close_ok after a successful close and the idle_timeout error
C36_AcceptedFramesWritten == ClosedByServer => send_queue = <<>>

----------------------------------------------------------------------------
(* The assembled reply (Spec) *)

\* the assistant rows committed by this connection
CommittedReplies ==
    {db_steps[i].gpt_response : i \in {j \in DOMAIN db_steps :
        db_steps[j].step_type = "assistant" /\ db_steps[j].turn >= 1}}

\* C37: the assembled assistant text, in the `message` frame and in the
\* persisted assistant step, has no occurrence of a marker pattern, also when
\* the model emitted the marker in two consecutive fragments
C37_AssembledTextRedacted ==
    /\ out_frame.type = "message" => NoMarker(out_frame.message)
    /\ \A reply \in CommittedReplies : NoMarker(reply)

\* every fragment that makes up the text is free of markers on its own
FragmentsRedacted == \A i \in 1..Len(assistant_chunks) : NoMarker(assistant_chunks[i])

----------------------------------------------------------------------------
(* The session after its end was recorded (Spec, SpecConn) *)

\* no turn was committed on a session whose ended_at was set
NoStepAfterEnd == \A t \in 1..Len(commit_log) : commit_log[t].ended_at = 0

\* ended_at was written at most once
EndWrittenOnce == ended_at <= 1

\* C38: once the end timestamp of a session is set, by a terminating turn or by
\* `close`, no further step is appended to the session and the timestamp is
\* never changed
C38_EndIsFinal == NoStepAfterEnd /\ EndWrittenOnce

----------------------------------------------------------------------------
(* The stages of the step frames of one connection (SpecStage) *)

\* the stages of the step frames, one per committed turn, given the log
StepFramesMonotone(log) ==
    \A t \in 1..Len(log) :
        /\ log[t].current_step <= log[t].new_step
        /\ t > 1 => /\ log[t - 1].new_step <= log[t].new_step
                    /\ log[t].new_step <= log[t - 1].new_step + 1

\* C39: over one connection the stages of successive step frames do not
\* decrease and rise by at most 1 per committed turn, and the stage used for
\* the prompt of a turn is not greater than the stage reported after it
C39_StepFramesMonotone == StepFramesMonotone(commit_log)

\* the same while no two rows of the session share a created_at
StepFramesMonotoneUntied == ~has_tie(db_steps) => StepFramesMonotone(commit_log)

\* and in every case the stage of the prompt is at most the stage reported
PromptStageAtMostReported ==
    \A t \in 1..Len(commit_log) : commit_log[t].current_step <= commit_log[t].new_step

----------------------------------------------------------------------------
(* The risk of one card (SpecRisk) *)

InitRisk ==
    /\ db_steps = <<>>
    /\ mode = "mask"
    /\ client_texts = {}
    /\ llm_streams = {}
    /\ raw_token = "valid"
    /\ allow_web_test = FALSE
    /\ raw_frames = {}
    /\ gw = GwIdle
    /\ InitLocals
    /\ pc = "recv"
    /\ sender_state = "get"
    /\ accepted = TRUE
    /\ session_id = "created"
    /\ tasks = <<>>
    /\ rec = RecIdle
    /\ health = HealthIdle
    /\ refresh = RefreshIdle
    /\ overlap = OverlapIdle
    /\ \E summary \in CardTexts, emotion \in CardTexts, thoughts \in {<<>>, <<"u", "ul">>} :
        risk = [RiskIdle EXCEPT !.payload = Payload(summary, emotion, thoughts)]

NextRisk ==
    \/ RiskScore
    \/ RiskCard

SpecRisk == InitRisk /\ [][NextRisk]_vars

\* the highest tier of which the text contains a keyword
highest_tier(text) ==
    IF any_in(_HIGH, text) THEN "HIGH"
    ELSE IF any_in(_MEDIUM, text) THEN "MEDIUM"
    ELSE IF any_in(_LOW, text) THEN "LOW"
    ELSE "NONE"

\* the flag is raised exactly when the level is not NONE, and the level of the
\* card is the level of the score
FlagIffLevel ==
    risk.state = "card" =>
        /\ risk.risk_flag <=> risk.level # "NONE"
        /\ risk.risk_level = IF risk.level = "NONE" THEN "None" ELSE risk.level

\* C40: score returns the highest tier of which the text contains a keyword
\* (HIGH before MEDIUM before LOW, NONE when it contains none), and
\* risk_from_payload raises the flag exactly when the level is not NONE
C40_ScoreIsHighestTier ==
    /\ risk.state # "idle" => risk.level = highest_tier(risk.text)
    /\ FlagIffLevel

\* what score computes: the highest tier of which the text without its blanks
\* contains a keyword without its blanks removed
ScoreOfSqueezedText ==
    risk.state # "idle" => risk.level = highest_tier(remove_token(risk.text, WS))

\* a keyword that holds a blank is never found
SpacedKeywordsNeverMatch ==
    \A text \in CardTexts : \A k \in _HIGH :
        WS \in {k[i] : i \in 1..Len(k)} => ~is_substring(k, remove_token(text, WS))

====
